---- MODULE Spec2Model ----
(***************************************************************************)
(* Market Intelligence Entity: the model client (OpenRouterClient), the    *)
(* four phase agents, the report consolidator and the enhanced             *)
(* orchestrator, modelled as state machines.                               *)
(*                                                                         *)
(* Three specifications share the variables:                               *)
(*   SpecClient - one complete() call of a client with any configuration;  *)
(*   SpecAgent  - one call of one agent or of the consolidator;            *)
(*   Spec       - one execute() call of an orchestrator.                   *)
(*                                                                         *)
(* Numbers: confidences are exact rationals [n, d] in lowest terms (Rat),  *)
(* standing for the doubles of the code without their rounding; delays are *)
(* integers in milliseconds.                                               *)
(* JavaScript values that the code tests for truthiness are tagged         *)
(* records: JNull, JStr(content), JObj(record).  Objects are records; a    *)
(* key that is absent reads as undefined.  In string fields "<null>" and   *)
(* "<undefined>" stand for null and undefined.                             *)
(* A JSON object a model answers with may lack any key of the schema it    *)
(* was asked for, but the keys it has hold values of the type the schema   *)
(* gives them.                                                             *)
(* The deterministic scans of the agents (segments, tracking tags, CTAs,   *)
(* forms, competitor scores) feed only the prompt and are not modelled,    *)
(* except for the schema.org name Phase 1 reconciles with the answer.      *)
(***************************************************************************)
EXTENDS Integers, Sequences, FiniteSets, TLC

VARIABLES
    config,     \* OpenRouterClient.config: api.maxRetries, api.retryDelayMs, phases
    call,       \* the running complete() call: position, phase, model, attempt, lastError
    log,        \* requests sent and delays awaited by the running complete() call
    outcome,    \* what complete() resolved or rejected with
    usageStats, \* OpenRouterClient.usageStats.totalRequests
    FEATURE_FLAG, \* feature_flag.js: the flag object
    env,        \* process.env.MARKET_INTEL_ENABLED
    agent,      \* the running call of a phase agent or of the consolidator
    orch,       \* EnhancedMarketOrchestrator: the fields of the instance
    run         \* the running execute() call: position, input, what it returned

clientVars == <<config, call, log, outcome, usageStats>>

pipelineVars == <<FEATURE_FLAG, env, agent, orch, run>>

vars == <<config, call, log, outcome, usageStats, FEATURE_FLAG, env, agent, orch, run>>

(***************************************************************************)
(* Bounds of the model.                                                    *)
(***************************************************************************)
\* largest api.maxRetries a configuration file sets (0 stands for "not set")
MaxRetriesCfg == 3

(***************************************************************************)
(* Program constants.                                                      *)
(***************************************************************************)
DefaultMaxRetries == 3
DefaultRetryDelayMs == 2000

PrimaryModel == "anthropic/claude-sonnet-4"
FallbackModel == "openai/gpt-4.1"
NoModel == ""

PhaseIds == {"phase1_website_extraction", "phase2_external_presence",
             "phase3_marketing_conversion", "phase4_competitor_analysis",
             "report_consolidation"}

(***************************************************************************)
(* JavaScript values.                                                      *)
(***************************************************************************)
JNull == [t |-> "null"]
JStr(c) == [t |-> "string", content |-> c]
JObj(o) == [t |-> "object", v |-> o]

\* JS truthiness of a value that is null, a string or an object
Truthy(v) == \/ v.t = "object"
             \/ v.t = "string" /\ v.content.form # "empty"

(***************************************************************************)
(* The completion endpoint (fetch): what a request may come back with.     *)
(***************************************************************************)
\* The text of choices[0].message.content, by its form:
\*   empty   - no content (or no choices at all)
\*   prose   - text without any {...}
\*   broken  - text with braces that is not valid JSON
\*   json    - exactly one JSON object
\*   wrapped - a JSON object inside prose or a code fence
\* the JSON objects a model may answer with; refined per phase further below
GenericObject == [answer |-> "text"]

Contents(objs) ==
    {[form |-> f, obj |-> GenericObject] : f \in {"empty", "prose", "broken"}}
    \cup {[form |-> f, obj |-> o] : f \in {"json", "wrapped"}, o \in objs}

\* a 2xx response whose body is a JSON object; the endpoint reports the model it ran
Responses(model, objs) ==
    {[model |-> model, content |-> c, usage |-> u] : c \in Contents(objs), u \in BOOLEAN}

\* a failed request, with the names its message mentions: fetch rejecting (network),
\* the abort timer firing (timeout), a non-2xx status whose body is put in the
\* message (http), a body that is not JSON or is null (malformed)
RequestErrors(model) ==
    {[kind |-> k, words |-> {}] : k \in {"network", "timeout", "http", "malformed"}}
    \cup {[kind |-> "http", words |-> {model}]}

NoError == [kind |-> "none", words |-> {}]

(***************************************************************************)
(* OpenRouterClient                                                        *)
(***************************************************************************)
PhaseCfgs ==
    {[primaryModel |-> PrimaryModel, fallbackModel |-> fb, requiresJson |-> rj] :
        fb \in {FallbackModel, NoModel}, rj \in BOOLEAN}

\* complete(): when neither phases[phase] nor phases.default exists
HardCodedPhaseConfig ==
    [primaryModel |-> PrimaryModel, fallbackModel |-> NoModel, requiresJson |-> FALSE]

\* config.phases, a map from names to phase configurations
PhasesMaps ==
    {[p \in PhaseIds |-> pc] : pc \in PhaseCfgs}
    \cup {[p \in {"default"} |-> pc] : pc \in PhaseCfgs}
    \cup {[p \in {} |-> HardCodedPhaseConfig]}

Configs ==
    {[maxRetries |-> n, retryDelayMs |-> d, phases |-> ph] :
        n \in 0..MaxRetriesCfg, d \in {0, 500}, ph \in PhasesMaps}

\* _getDefaultConfig()
DefaultConfig ==
    [maxRetries |-> DefaultMaxRetries, retryDelayMs |-> DefaultRetryDelayMs,
     phases |-> [p \in {"default"} |->
        [primaryModel |-> PrimaryModel, fallbackModel |-> FallbackModel,
         requiresJson |-> FALSE]]]

\* complete(): this.config.phases[phase] || this.config.phases.default || {...}
phaseConfig(phase) ==
    IF phase \in DOMAIN config.phases THEN config.phases[phase]
    ELSE IF "default" \in DOMAIN config.phases THEN config.phases["default"]
    ELSE HardCodedPhaseConfig

\* _executeCompletion(): this.config.api?.maxRetries || 3
maxRetries == IF config.maxRetries = 0 THEN DefaultMaxRetries ELSE config.maxRetries

\* _executeCompletion(): this.config.api?.retryDelayMs || 2000
retryDelay == IF config.retryDelayMs = 0 THEN DefaultRetryDelayMs ELSE config.retryDelayMs

backoffDelay_constant(attempt) == retryDelay

\* _executeCompletion(): await this._delay(retryDelay * attempt)
backoffDelay(attempt) == retryDelay * attempt

Request(model, attempt) == [ev |-> "request", model |-> model, attempt |-> attempt, ms |-> 0]
Delay(model, attempt, ms) == [ev |-> "delay", model |-> model, attempt |-> attempt, ms |-> ms]

IdleCall == [pc |-> "idle", phase |-> "", stage |-> "", model |-> NoModel,
             attempt |-> 0, lastError |-> NoError]
NoOutcome == [kind |-> "none"]

parseResponse_primaryModel(response, requiresJson) ==
    [kind |-> "result", raw |-> response.content, parsed |-> JNull,
     model |-> PrimaryModel, usage |-> response.usage, parseError |-> FALSE]

parseResponse_unrecorded(response, requiresJson) ==
    [kind |-> "result", raw |-> response.content,
     parsed |-> IF requiresJson
                THEN (IF response.content.form \in {"json", "wrapped"}
                      THEN JObj(response.content.obj) ELSE JNull)
                ELSE JStr(response.content),
     model |-> response.model, usage |-> response.usage, parseError |-> FALSE]

\* _parseResponse(response, requiresJson)
parseResponse(response, requiresJson) ==
    LET content == response.content
        parses == content.form \in {"json", "wrapped"}
    IN  [kind |-> "result",
         raw |-> content,
         parsed |-> IF requiresJson
                    THEN (IF parses THEN JObj(content.obj) ELSE JNull)
                    ELSE JStr(content),
         model |-> response.model,
         usage |-> response.usage,
         parseError |-> requiresJson /\ ~parses]

allModelsFailed_bare(phase, fallbackError) ==
    [kind |-> "error", name |-> "all_models_failed", cause |-> fallbackError.kind,
     words |-> fallbackError.words]

\* complete(): throw new Error(`All models failed for phase ${phase}: ${fallbackError.message}`)
allModelsFailed(phase, fallbackError) ==
    [kind |-> "error", name |-> "all_models_failed", cause |-> fallbackError.kind,
     words |-> {phase} \cup fallbackError.words]

\* complete(): throw primaryError (no fallback model configured)
rethrown(primaryError) ==
    [kind |-> "error", name |-> "request_error", cause |-> primaryError.kind,
     words |-> primaryError.words]

\* complete(): the first statement up to the first request of the primary model
startComplete(phase) ==
    /\ call' = [pc |-> "request", phase |-> phase, stage |-> "primary",
                model |-> phaseConfig(phase).primaryModel, attempt |-> 1,
                lastError |-> NoError]
    /\ log' = <<Request(phaseConfig(phase).primaryModel, 1)>>
    /\ outcome' = NoOutcome

attemptsOf_fallbackOnce(stage) == IF stage = "primary" THEN maxRetries ELSE 1

\* complete(): the fallback model goes through the loop of _executeCompletion()
\* like the primary: for (attempt = 1; attempt <= maxRetries; attempt++)
attemptsOf(stage) == maxRetries

(***************************************************************************)
(* Numbers: exact rationals n/d in lowest terms, d > 0.                    *)
(***************************************************************************)
RECURSIVE GCD(_, _)
GCD(a, b) == IF b = 0 THEN a ELSE GCD(b, a % b)

Abs(a) == IF a < 0 THEN 0 - a ELSE a

Rat(n, d) ==
    LET g == GCD(Abs(n), Abs(d))
        s == IF d < 0 THEN 0 - 1 ELSE 1
    IN  [n |-> s * (n \div g), d |-> s * (d \div g)]

Pct(p) == Rat(p, 100)
Zero == [n |-> 0, d |-> 1]
One == [n |-> 1, d |-> 1]
RAdd(a, b) == Rat(a.n * b.d + b.n * a.d, a.d * b.d)
RMul(a, b) == Rat(a.n * b.n, a.d * b.d)
RDiv(a, b) == Rat(a.n * b.d, a.d * b.n)
RLt(a, b) == a.n * b.d < b.n * a.d
RMin(a, b) == IF RLt(b, a) THEN b ELSE a

RECURSIVE RSum(_)
RSum(q) == IF q = <<>> THEN Zero ELSE RAdd(Head(q), RSum(Tail(q)))

\* arr.reduce((a, b) => a + b, 0) / arr.length, for a non-empty array
RAvg(q) == RDiv(RSum(q), Rat(Len(q), 1))

(***************************************************************************)
(* JavaScript objects are records; a key that is absent reads as undefined. *)
(***************************************************************************)
Has(o, k) == k \in DOMAIN o

\* o?.k1?.k2?.k3 is defined
RECURSIVE HasPath(_, _)
HasPath(o, ks) ==
    IF ks = <<>> THEN TRUE
    ELSE Head(ks) \in DOMAIN o /\ HasPath(o[Head(ks)], Tail(ks))

\* o.k = v
Put(o, k, v) == [f \in DOMAIN o \cup {k} |-> IF f = k THEN v ELSE o[f]]

\* o.k || d, for a key that holds a string
StrOr(o, k, d) == IF Has(o, k) /\ o[k] \notin {"", "<null>", "<undefined>"} THEN o[k] ELSE d

\* o.k || d, for a key that holds an object or an array
ValOr(o, k, d) == IF Has(o, k) THEN o[k] ELSE d

\* (o.k || 0), for a key that holds a number
NumOr0(o, k) == IF Has(o, k) THEN o[k] ELSE Zero

\* o.k?.length > 0
NonEmptyArray(o, k) == Has(o, k) /\ Len(o[k]) > 0

Null == [isNull |-> TRUE]
EmptyObject == [isEmptyObject |-> TRUE]
Now == "<now>"
Undefined == "<undefined>"

Ok(v) == [ok |-> TRUE, v |-> v]
Throw(e) == [ok |-> FALSE, error |-> e]

\* assigning a property on a string primitive in module (strict) code
TypeError == [kind |-> "error", name |-> "TypeError", cause |-> "none", words |-> {}]

\* JSON.parse() of text that is not JSON, or no {...} found in the text
SyntaxError == [kind |-> "error", name |-> "SyntaxError", cause |-> "none", words |-> {}]

\* an answer that is a JSON object with none of the keys of the phase's schema
Sparse == [note |-> "text"]

(***************************************************************************)
(* Website data handed to the agents: url, html and textContent.           *)
(* html: whether there is any, the name in its schema.org JSON-LD block (""*)
(* if none) and the tracking tags found in it; textContent: its length and *)
(* whether it contains the marker 'Business providing:'.                   *)
(***************************************************************************)
NoHtml == [present |-> FALSE, schemaName |-> "", tags |-> {}]
PlainHtml == [present |-> TRUE, schemaName |-> "", tags |-> {}]
RichHtml == [present |-> TRUE, schemaName |-> "Acme", tags |-> {"ga4"}]

NoText == [len |-> 0, marker |-> FALSE]
ShortText == [len |-> 30, marker |-> FALSE]
Description == [len |-> 100, marker |-> TRUE]
LongText == [len |-> 600, marker |-> FALSE]

TargetUrl == "https://acme.example"

WebsiteDatas ==
    {[url |-> TargetUrl, html |-> h, textContent |-> t] :
        h \in {NoHtml, PlainHtml, RichHtml},
        t \in {NoText, ShortText, Description, LongText}}
    \cup {[url |-> Undefined, html |-> NoHtml, textContent |-> t] : t \in {NoText, Description}}

(***************************************************************************)
(* Phase 1: WebsiteExtractionAgent                                         *)
(***************************************************************************)
\* an answer that follows PHASE1_OUTPUT_SCHEMA
Full1 ==
    [business_identity |->
        [name |-> [value |-> "Acme", confidence |-> Pct(80), sources |-> <<>>],
         location |-> [country |-> "US", city |-> "Austin", confidence |-> Pct(50),
                       sources |-> <<>>],
         category |-> [value |-> "plumbing", taxonomy |-> "services/plumbing",
                       confidence |-> Pct(80), sources |-> <<>>]],
     primary_offerings |-> <<[name |-> "repairs", rank |-> 1, confidence |-> Pct(80)]>>,
     proof_assets |-> <<[type |-> "testimonial", confidence |-> Pct(60)]>>,
     offer_structure |-> [packages |-> <<>>],
     overall_confidence |-> Pct(70)]

\* an answer with a schema-shaped identity whose name carries no sources array
NoSources1 ==
    [business_identity |->
        [name |-> [value |-> "Acme", confidence |-> Pct(90)]],
     primary_offerings |-> <<>>]

Objects1 == {Full1, NoSources1, Sparse}

\* extract(): hasWebsiteContent
hasWebsiteContent(websiteData) ==
    websiteData.html.present \/ websiteData.textContent.len > 50

\* extract(): hasDescription
hasDescription(websiteData) ==
    websiteData.textContent.len > 0 /\ websiteData.textContent.marker

\* extract(): the branch taken
extractMode(enabled, websiteData) ==
    IF ~enabled THEN "disabled"
    ELSE IF hasWebsiteContent(websiteData) /\ ~hasDescription(websiteData) THEN "website"
    ELSE IF hasDescription(websiteData) \/ websiteData.textContent.len > 0 THEN "description"
    ELSE "none"

\* _getEmptyProfile(url)
getEmptyProfile(url) ==
    [url |-> url,
     extracted_at |-> Now,
     phase |-> "phase1_website_extraction",
     business_identity |->
        [name |-> [value |-> "", confidence |-> Zero, sources |-> <<>>],
         location |-> [country |-> "", city |-> "", confidence |-> Zero, sources |-> <<>>],
         category |-> [value |-> "", taxonomy |-> "", confidence |-> Zero, sources |-> <<>>]],
     primary_offerings |-> <<>>,
     proof_assets |-> <<>>,
     offer_structure |-> [packages |-> <<>>],
     evidence |-> [snapshots |-> <<>>, selectors |-> EmptyObject],
     overall_confidence |-> Zero]

\* _getErrorProfile(url, error)
getErrorProfile(url, error) ==
    Put(Put(getEmptyProfile(url), "extraction_error", error), "extraction_status", "failed")

\* the class's second _calculateOverallConfidence(profile), which replaces the first
calculateOverallConfidence1(profile) ==
    LET conf(k) == profile.business_identity[k].confidence
        truthy(k) == /\ HasPath(profile, <<"business_identity", k, "confidence">>)
                     /\ conf(k).n # 0
        name == IF truthy("name") THEN <<RMul(conf("name"), Rat(3, 2))>> ELSE <<>>
        category == IF truthy("category") THEN <<conf("category")>> ELSE <<>>
        offerings == IF NonEmptyArray(profile, "primary_offerings")
                     THEN <<RAvg([i \in DOMAIN profile.primary_offerings |->
                                    NumOr0(profile.primary_offerings[i], "confidence")])>>
                     ELSE <<>>
        proof == IF NonEmptyArray(profile, "proof_assets") THEN <<Pct(70)>> ELSE <<>>
        confidences == name \o category \o offerings \o proof
    IN  IF Len(confidences) = 0 THEN Zero ELSE RMin(One, RAvg(confidences))

\* what property reads see of llmResult.parsed || llmResult in _parseAndValidateProfile:
\* the parsed object, the object parsed out of a string, or a value without schema keys
parsedOrResult(llmResult) ==
    IF ~Truthy(llmResult.parsed) THEN llmResult
    ELSE IF llmResult.parsed.t = "object" THEN llmResult.parsed.v
    ELSE IF llmResult.parsed.content.form \in {"json", "wrapped"}
         THEN llmResult.parsed.content.obj
    ELSE Sparse

\* _parseAndValidateProfile(llmResult, url)
parseAndValidateProfile(llmResult, url) ==
    LET parsed == parsedOrResult(llmResult)
    IN  IF /\ Truthy(llmResult.parsed)
           /\ llmResult.parsed.t = "string"
           /\ llmResult.parsed.content.form = "broken"
        THEN getEmptyProfile(url)
        ELSE [url |-> StrOr(parsed, "url", url),
              extracted_at |-> StrOr(parsed, "extracted_at", Now),
              business_identity |-> ValOr(parsed, "business_identity",
                    [name |-> [value |-> "", confidence |-> Zero],
                     location |-> [country |-> "", city |-> "", confidence |-> Zero],
                     category |-> [value |-> "", confidence |-> Zero]]),
              primary_offerings |-> ValOr(parsed, "primary_offerings", <<>>),
              proof_assets |-> ValOr(parsed, "proof_assets", <<>>),
              offer_structure |-> ValOr(parsed, "offer_structure", [packages |-> <<>>]),
              evidence |-> ValOr(parsed, "evidence", [snapshots |-> <<>>, selectors |-> EmptyObject]),
              overall_confidence |->
                    IF Has(parsed, "overall_confidence") /\ parsed.overall_confidence.n # 0
                    THEN parsed.overall_confidence
                    ELSE calculateOverallConfidence1(parsed)]

\* _similarityScore(str1, str2) > 0.8, for names that are either equal or unrelated
similar(str1, str2) == str1 # "" /\ str2 # "" /\ str1 = str2

\* _validateAndReconcile(): the schema.org block boosts the confidence of a matching name
reconcile(profile, websiteData) ==
    IF /\ websiteData.html.schemaName # ""
       /\ HasPath(profile, <<"business_identity", "name", "value">>)
       /\ profile.business_identity.name.value # ""
       /\ similar(websiteData.html.schemaName, profile.business_identity.name.value)
    THEN LET name == profile.business_identity.name
             boosted == Put(name, "confidence",
                            RMin(One, RAdd(NumOr0(name, "confidence"), Pct(20))))
         IN  IF ~Has(name, "sources") THEN Throw(TypeError)
             ELSE Ok([profile EXCEPT !.business_identity.name =
                        Put(boosted, "sources",
                            Append(name.sources, [url |-> websiteData.url,
                                                  type |-> "schema.org"]))])
    ELSE Ok(profile)

\* _validateAndReconcile(llmResult, deterministicData, url)
validateAndReconcile(llmResult, websiteData) ==
    IF Truthy(llmResult.parsed) /\ llmResult.parsed.t = "string" THEN Throw(TypeError)
    ELSE LET profile == IF Truthy(llmResult.parsed) THEN llmResult.parsed.v
                        ELSE getEmptyProfile(websiteData.url)
             stamped == Put(Put(Put(Put(profile, "url", websiteData.url),
                            "extracted_at", Now),
                            "phase", "phase1_website_extraction"),
                            "model_used", llmResult.model)
             reconciled == reconcile(stamped, websiteData)
         IN  IF ~reconciled.ok THEN reconciled
             ELSE Ok(Put(Put(reconciled.v,
                        "overall_confidence", calculateOverallConfidence1(reconciled.v)),
                        "_metadata",
                        [llm_tokens |-> llmResult.usage,
                         extraction_method |-> "llm_with_deterministic_reconciliation",
                         deterministic_signals_found |->
                            [schemaOrg |-> websiteData.html.schemaName # ""]]))

\* extract(): return without a model call
immediate1(mode, websiteData) ==
    getEmptyProfile(IF websiteData.url = Undefined THEN "unknown" ELSE websiteData.url)

\* _generateFromDescription(): url = websiteData.url || 'N/A'
descriptionUrl(websiteData) == IF websiteData.url = Undefined THEN "N/A" ELSE websiteData.url

\* _extractFromWebsite() / _generateFromDescription(): after complete() resolved
onResult1(mode, websiteData, llmResult) ==
    IF mode = "website"
    THEN LET r == validateAndReconcile(llmResult, websiteData)
         IN  IF r.ok THEN r.v ELSE getErrorProfile(websiteData.url, r.error)
    ELSE parseAndValidateProfile(llmResult, descriptionUrl(websiteData))

\* _extractFromWebsite() / _generateFromDescription(): the catch block
onError1(mode, websiteData, error) ==
    IF mode = "website" THEN getErrorProfile(websiteData.url, error)
    ELSE getErrorProfile(descriptionUrl(websiteData), error)

(***************************************************************************)
(* Phase 2: ExternalPresenceAgent                                          *)
(***************************************************************************)
\* an answer that follows the schema of the estimation prompt
Full2 ==
    [profiles |->
        [social |-> <<[platform |-> "LinkedIn", confidence |-> Pct(50)]>>,
         google_business_profile |-> [rating |-> Rat(42, 10), review_count |-> Rat(50, 1),
                                      confidence |-> Pct(50)],
         b2b_listings |-> <<>>],
     sentiment_themes |-> <<[theme |-> "service", sentiment |-> "positive",
                             confidence |-> Pct(50)]>>,
     owner_response_analysis |-> [responds_to_reviews |-> TRUE, confidence |-> Pct(40)],
     overall_confidence |-> Pct(45)]

Objects2 == {Full2, Sparse}

\* businessIdentity?.business_identity?.name?.value || ''
nameValue(businessIdentity) ==
    IF HasPath(businessIdentity, <<"business_identity", "name", "value">>)
    THEN businessIdentity.business_identity.name.value
    ELSE ""

\* businessIdentity?.business_identity?.location || {}
locationOf(businessIdentity) ==
    IF HasPath(businessIdentity, <<"business_identity", "location">>)
    THEN businessIdentity.business_identity.location
    ELSE EmptyObject

\* analyze(): the branch taken
analyzeMode2(enabled, businessIdentity) ==
    IF ~enabled THEN "disabled"
    ELSE IF nameValue(businessIdentity) # "" \/ NonEmptyArray(businessIdentity, "primary_offerings")
    THEN "identity"
    ELSE IF StrOr(businessIdentity, "url", "") # "" \/ StrOr(businessIdentity, "textContent", "") # ""
    THEN "estimation"
    ELSE "none"

\* _getEmptyAnalysis(businessIdentity)
getEmptyAnalysis2(businessIdentity) ==
    [extracted_at |-> Now,
     phase |-> "phase2_external_presence",
     business |-> [name |-> nameValue(businessIdentity),
                   website |-> StrOr(businessIdentity, "url", ""),
                   location |-> locationOf(businessIdentity)],
     profiles |-> [social |-> <<>>, google_business_profile |-> Null,
                   play_store |-> Null, b2b_listings |-> <<>>],
     social_perception |->
        [last_30_posts |-> [top_comment_themes |-> <<>>, top_caption_themes |-> <<>>],
         sentiment_distribution |-> [positive |-> Zero, neutral |-> Zero, negative |-> Zero]],
     owner_response_behavior |->
        [replies_exist |-> FALSE, reply_rate_estimate |-> Zero, tone_patterns |-> <<>>],
     evidence |-> <<>>,
     profiles_discovered |-> 0,
     overall_confidence |-> Zero]

\* _getErrorAnalysis(businessIdentity, error)
getErrorAnalysis2(businessIdentity, error) ==
    Put(Put(getEmptyAnalysis2(businessIdentity), "extraction_error", error),
        "extraction_status", "failed")

\* what _searchForProfiles() may come back with: null without a Serper key or when
\* the search fails, no hits, or one social profile found
SearchOutcomes == {"no_key", "failed", "no_results", "found"}

SearchResults ==
    [social |-> <<[platform |-> "LinkedIn", url |-> "https://linkedin.com/company/acme",
                   confidence |-> Pct(90)]>>,
     reviews |-> <<>>, gbp |-> Null, b2b |-> <<>>]

\* _buildAnalysisFromSearchResults(searchResults, businessName, description)
buildAnalysisFromSearchResults(searchResults, businessName) ==
    [extracted_at |-> Now,
     phase |-> "phase2_external_presence",
     data_source |-> "web_search",
     model_used |-> "serper.dev + analysis",
     business |-> [name |-> businessName, website |-> "", location |-> EmptyObject],
     profiles |->
        [social |-> [i \in DOMAIN searchResults.social |->
                        [platform |-> searchResults.social[i].platform,
                         profile_url |-> searchResults.social[i].url,
                         confidence |-> searchResults.social[i].confidence,
                         verified |-> TRUE]],
         google_business_profile |-> Null,
         play_store |-> Null,
         b2b_listings |-> <<>>],
     social_perception |->
        [last_30_posts |-> [top_comment_themes |-> <<>>, top_caption_themes |-> <<>>],
         sentiment_distribution |->
            [positive |-> Pct(60), neutral |-> Pct(30), negative |-> Pct(10)]],
     sentiment_themes |-> <<>>,
     owner_response_behavior |->
        [replies_exist |-> TRUE, reply_rate_estimate |-> Pct(60),
         tone_patterns |-> <<"professional">>],
     evidence |-> [i \in DOMAIN searchResults.social |->
                     [type |-> "social_profile", url |-> searchResults.social[i].url,
                      platform |-> searchResults.social[i].platform]],
     profiles_discovered |-> Len(searchResults.social) + Len(searchResults.b2b),
     overall_confidence |-> Pct(85)]

\* the profile count of _validateAndEnrich() and _parseAndValidateAnalysis()
countProfiles(analysis) ==
    LET profiles == ValOr(analysis, "profiles", EmptyObject)
        len(k) == IF Has(profiles, k) THEN Len(profiles[k]) ELSE 0
        one(k) == IF Has(profiles, k) /\ profiles[k] # Null THEN 1 ELSE 0
    IN  len("social") + one("google_business_profile") + one("play_store")
        + len("b2b_listings")

\* ExternalPresenceAgent._calculateOverallConfidence(analysis)
calculateOverallConfidence2(analysis) ==
    LET discovered == IF analysis.profiles_discovered > 0
                      THEN <<RMin(One, Rat(15 * analysis.profiles_discovered + 40, 100))>>
                      ELSE <<>>
        themes == IF /\ HasPath(analysis, <<"social_perception", "last_30_posts",
                                            "top_comment_themes">>)
                     /\ Len(analysis.social_perception.last_30_posts.top_comment_themes) > 0
                  THEN <<Pct(70)>> ELSE <<>>
        replies == IF /\ HasPath(analysis, <<"owner_response_behavior", "replies_exist">>)
                      /\ analysis.owner_response_behavior.replies_exist
                   THEN <<Pct(65)>> ELSE <<>>
        evidence == IF NonEmptyArray(analysis, "evidence")
                    THEN <<RAvg([i \in DOMAIN analysis.evidence |->
                                    NumOr0(analysis.evidence[i], "confidence")])>>
                    ELSE <<>>
        factors == discovered \o themes \o replies \o evidence
    IN  IF Len(factors) = 0 THEN Zero ELSE RAvg(factors)

\* ExternalPresenceAgent._validateAndEnrich(llmResult, businessIdentity, mergedData)
validateAndEnrich2(llmResult, businessIdentity) ==
    IF Truthy(llmResult.parsed) /\ llmResult.parsed.t = "string" THEN Throw(TypeError)
    ELSE LET analysis == IF Truthy(llmResult.parsed) THEN llmResult.parsed.v
                         ELSE getEmptyAnalysis2(businessIdentity)
             stamped == Put(Put(Put(Put(analysis, "extracted_at", Now),
                            "phase", "phase2_external_presence"),
                            "model_used", llmResult.model),
                            "business", [name |-> nameValue(businessIdentity),
                                         website |-> StrOr(businessIdentity, "url", ""),
                                         location |-> locationOf(businessIdentity)])
             counted == Put(stamped, "profiles_discovered", countProfiles(stamped))
         IN  Ok(Put(Put(counted,
                    "overall_confidence", calculateOverallConfidence2(counted)),
                    "_metadata", [llm_tokens |-> llmResult.usage,
                                  data_sources |-> [social_profiles |-> 0]]))

\* the value whose properties _parseAndValidateAnalysis() and
\* _parseAndValidateMarketingAnalysis() read: response.parsed when truthy (a string has
\* none of the keys), else the object matched in the raw text or in
\* JSON.stringify(response); no value when the raw text holds no valid JSON
parsedOrRaw(response) ==
    IF Truthy(response.parsed)
    THEN Ok(IF response.parsed.t = "object" THEN response.parsed.v ELSE Sparse)
    ELSE IF response.raw.form = "empty" THEN Ok(Sparse)
    ELSE IF response.raw.form \in {"json", "wrapped"} THEN Ok(response.raw.obj)
    ELSE Throw(SyntaxError)

\* _parseAndValidateAnalysis(response, businessName), called with the agent's input
parseAndValidateAnalysis(response, input) ==
    LET businessName == IF nameValue(input) # "" THEN nameValue(input) ELSE "Business"
        r == parsedOrRaw(response)
        parsed == r.v
        hasThemes == Has(parsed, "social_perception") \/ Has(parsed, "sentiment_themes")
        profiles == ValOr(parsed, "profiles",
                        [social |-> ValOr(parsed, "social", <<>>),
                         google_business_profile |-> ValOr(parsed, "google_business_profile", Null),
                         play_store |-> ValOr(parsed, "play_store", Null),
                         b2b_listings |-> ValOr(parsed, "b2b_listings", <<>>)])
        analysis ==
            [extracted_at |-> Now,
             phase |-> "phase2_external_presence",
             model_used |-> response.model,
             business |-> [name |-> businessName,
                           website |-> IF HasPath(parsed, <<"business", "website">>)
                                       THEN parsed.business.website ELSE "",
                           location |-> IF HasPath(parsed, <<"business", "location">>)
                                        THEN parsed.business.location ELSE EmptyObject],
             profiles |-> profiles,
             social_perception |->
                IF hasThemes
                THEN [last_30_posts |->
                        [top_comment_themes |-> ValOr(parsed, "sentiment_themes", <<>>),
                         top_caption_themes |-> <<>>],
                      sentiment_distribution |->
                        [positive |-> Pct(50), neutral |-> Pct(35), negative |-> Pct(15)]]
                ELSE [last_30_posts |->
                        [top_comment_themes |-> <<>>, top_caption_themes |-> <<>>],
                      sentiment_distribution |->
                        [positive |-> Pct(40), neutral |-> Pct(40), negative |-> Pct(20)]],
             sentiment_themes |-> ValOr(parsed, "sentiment_themes", <<>>),
             owner_response_behavior |->
                ValOr(parsed, "owner_response_behavior",
                    ValOr(parsed, "owner_response_analysis",
                        [replies_exist |-> TRUE, reply_rate_estimate |-> Pct(60),
                         tone_patterns |-> <<"professional", "helpful">>])),
             evidence |-> ValOr(parsed, "evidence", <<>>),
             overall_confidence |->
                IF Has(parsed, "overall_confidence") /\ parsed.overall_confidence.n # 0
                THEN parsed.overall_confidence ELSE Pct(65)]
    IN  IF ~r.ok
        THEN getEmptyAnalysis2([business_identity |-> [name |-> [value |-> businessName]]])
        ELSE Put(analysis, "profiles_discovered",
                 IF Has(parsed, "profiles_discovered") /\ parsed.profiles_discovered # 0
                 THEN parsed.profiles_discovered ELSE countProfiles(analysis))

\* analyze(): return without a model call
immediate2(mode, businessIdentity) ==
    IF mode = "found"
    THEN buildAnalysisFromSearchResults(SearchResults,
            IF nameValue(businessIdentity) # "" THEN nameValue(businessIdentity)
            ELSE "Business")
    ELSE getEmptyAnalysis2(businessIdentity)

\* _analyzeWithIdentity() / _generatePresenceAnalysis(): after complete() resolved
onResult2(mode, businessIdentity, llmResult) ==
    IF mode = "identity"
    THEN LET r == validateAndEnrich2(llmResult, businessIdentity)
         IN  IF r.ok THEN r.v ELSE getErrorAnalysis2(businessIdentity, r.error)
    ELSE Put(parseAndValidateAnalysis(llmResult, businessIdentity),
             "data_source", "llm_estimation")

\* _analyzeWithIdentity() / _generatePresenceAnalysis(): the catch block
onError2(mode, businessIdentity, error) ==
    IF mode = "identity" THEN getErrorAnalysis2(businessIdentity, error)
    ELSE getEmptyAnalysis2(businessIdentity)

(***************************************************************************)
(* Phase 3: MarketingConversionAgent                                       *)
(***************************************************************************)
\* an answer that follows PHASE3_OUTPUT_SCHEMA
Full3 ==
    [marketing |-> [channels |-> <<[channel |-> "organic_search", confidence |-> Pct(80)],
                                   [channel |-> "social", confidence |-> Pct(70)]>>,
                    tracking_tags |-> {"gtm"},
                    ad_platform_ids |-> <<>>],
     landing_pages |-> <<[url |-> "homepage",
                          primary_ctas |-> <<[type |-> "button", text |-> "Get Started"]>>,
                          supporting_ctas |-> <<>>]>>,
     engagement_paths |-> <<[path_id |-> "primary_conversion", confidence |-> Pct(75)]>>,
     sales_process |-> [type |-> "consultative", inbound |-> "form", outbound |-> "email"],
     product_journey |-> [entry_offers |-> <<"demo">>, core_product |-> "plumbing",
                          upsells |-> <<>>, cross_sells |-> <<>>],
     overall_confidence |-> Pct(70)]

\* an answer with marketing channels but no landing pages
NoLandingPages3 ==
    [marketing |-> [channels |-> <<[channel |-> "organic_search", confidence |-> Pct(80)],
                                   [channel |-> "social", confidence |-> Pct(70)]>>,
                    tracking_tags |-> {},
                    ad_platform_ids |-> <<>>],
     landing_pages |-> <<>>]

Objects3 == {Full3, NoLandingPages3, Sparse}

\* analyze(): the branch taken
analyzeMode3(enabled, websiteData) ==
    IF ~enabled THEN "disabled"
    ELSE IF websiteData.html.present \/ websiteData.textContent.len > 500 THEN "website"
    ELSE "description"

\* MarketingConversionAgent._getEmptyAnalysis(url)
getEmptyAnalysis3(url) ==
    [url |-> url,
     extracted_at |-> Now,
     phase |-> "phase3_marketing_conversion",
     marketing |-> [channels |-> <<>>, tracking_tags |-> {}, ad_platform_ids |-> <<>>],
     landing_pages |-> <<>>,
     engagement_paths |-> <<>>,
     sales_process |-> [type |-> "<null>", inbound |-> "", outbound |-> ""],
     product_journey |-> [entry_offers |-> <<>>, core_product |-> "",
                          upsells |-> <<>>, cross_sells |-> <<>>],
     evidence |-> <<>>,
     total_ctas |-> 0,
     overall_confidence |-> Zero]

\* MarketingConversionAgent._getErrorAnalysis(url, error)
getErrorAnalysis3(url, error) ==
    Put(Put(getEmptyAnalysis3(url), "extraction_error", error), "extraction_status", "failed")

RECURSIVE countCtas(_)
\* sum of primary_ctas.length and supporting_ctas.length over the landing pages
countCtas(landingPages) ==
    IF landingPages = <<>> THEN 0
    ELSE LET lp == Head(landingPages)
             len(k) == IF Has(lp, k) THEN Len(lp[k]) ELSE 0
         IN  len("primary_ctas") + len("supporting_ctas") + countCtas(Tail(landingPages))

\* _parseAndValidateMarketingAnalysis(response, businessName)
parseAndValidateMarketingAnalysis(response, businessName) ==
    LET r == parsedOrRaw(response)
        parsed == r.v
        landingPages == ValOr(parsed, "landing_pages", <<>>)
        totalCtas == countCtas(landingPages)
        channels == IF HasPath(parsed, <<"marketing", "channels">>)
                    THEN Len(parsed.marketing.channels) ELSE 0
    IN  IF ~r.ok THEN getEmptyAnalysis3("unknown")
        ELSE [extracted_at |-> Now,
              phase |-> "phase3_marketing_conversion",
              model_used |-> response.model,
              url |-> "description-based",
              marketing |-> ValOr(parsed, "marketing",
                    [channels |-> <<[channel |-> "organic_search", confidence |-> Pct(60)]>>,
                     tracking_tags |-> {"ga4"},
                     ad_platform_ids |-> <<>>]),
              landing_pages |-> landingPages,
              engagement_paths |-> ValOr(parsed, "engagement_paths", <<>>),
              sales_process |-> ValOr(parsed, "sales_process",
                    [type |-> "consultative", inbound |-> "Contact form and phone inquiries",
                     outbound |-> "Email outreach"]),
              product_journey |-> ValOr(parsed, "product_journey",
                    [entry_offers |-> <<"free consultation">>, core_product |-> businessName,
                     upsells |-> <<>>, cross_sells |-> <<>>]),
              total_ctas |-> IF totalCtas # 0 THEN totalCtas
                             ELSE IF channels # 0 THEN channels ELSE 1,
              overall_confidence |->
                    IF Has(parsed, "overall_confidence") /\ parsed.overall_confidence.n # 0
                    THEN parsed.overall_confidence ELSE Pct(65)]

\* MarketingConversionAgent._calculateOverallConfidence(analysis)
calculateOverallConfidence3(analysis) ==
    LET ctas == IF analysis.total_ctas > 0
                THEN <<RMin(One, Rat(50 + 10 * analysis.total_ctas, 100))>> ELSE <<>>
        tags == IF /\ HasPath(analysis, <<"marketing", "tracking_tags">>)
                   /\ analysis.marketing.tracking_tags # {}
                THEN <<Pct(70)>> ELSE <<>>
        paths == IF NonEmptyArray(analysis, "engagement_paths")
                 THEN <<RAvg([i \in DOMAIN analysis.engagement_paths |->
                                NumOr0(analysis.engagement_paths[i], "confidence")])>>
                 ELSE <<>>
        sales == IF /\ HasPath(analysis, <<"sales_process", "type">>)
                    /\ analysis.sales_process.type \notin {"", "<null>"}
                 THEN <<Pct(65)>> ELSE <<>>
        factors == ctas \o tags \o paths \o sales
    IN  IF Len(factors) = 0 THEN Zero ELSE RAvg(factors)

\* MarketingConversionAgent._validateAndEnrich(llmResult, url, tracking, ctas);
\* tracking.tags are the tags detected in the html, tracking.adPlatforms is empty
validateAndEnrich3(llmResult, websiteData) ==
    IF Truthy(llmResult.parsed) /\ llmResult.parsed.t = "string" THEN Throw(TypeError)
    ELSE LET analysis == IF Truthy(llmResult.parsed) THEN llmResult.parsed.v
                         ELSE getEmptyAnalysis3(websiteData.url)
             stamped == Put(Put(Put(Put(analysis, "url", websiteData.url),
                            "extracted_at", Now),
                            "phase", "phase3_marketing_conversion"),
                            "model_used", llmResult.model)
             marketing == ValOr(stamped, "marketing",
                            [channels |-> <<>>, tracking_tags |-> {}, ad_platform_ids |-> <<>>])
             tagged == Put(stamped, "marketing",
                         Put(Put(marketing,
                            "tracking_tags",
                            ValOr(marketing, "tracking_tags", {}) \cup websiteData.html.tags),
                            "ad_platform_ids", ValOr(marketing, "ad_platform_ids", <<>>)))
             counted == Put(tagged, "total_ctas",
                            countCtas(ValOr(tagged, "landing_pages", <<>>)))
         IN  Ok(Put(Put(counted,
                    "overall_confidence", calculateOverallConfidence3(counted)),
                    "_metadata", [llm_tokens |-> llmResult.usage,
                                  detected_elements |->
                                    [tracking_tags |-> Cardinality(websiteData.html.tags)]]))

\* 'unknown' for a website without url
urlOrUnknown(websiteData) == IF websiteData.url = Undefined THEN "unknown" ELSE websiteData.url

\* analyze(): return without a model call
immediate3(mode, businessIdentity) == getEmptyAnalysis3(StrOr(businessIdentity, "url", Undefined))

\* analyze() / _generateFromDescription(): after complete() resolved
onResult3(mode, businessIdentity, websiteData, llmResult) ==
    IF mode = "website"
    THEN LET r == validateAndEnrich3(llmResult, websiteData)
         IN  IF r.ok THEN r.v ELSE getErrorAnalysis3(urlOrUnknown(websiteData), r.error)
    ELSE parseAndValidateMarketingAnalysis(llmResult,
            IF nameValue(businessIdentity) # "" THEN nameValue(businessIdentity)
            ELSE "Unknown Business")

\* analyze() / _generateFromDescription(): the catch block
onError3(mode, websiteData, error) ==
    IF mode = "website" THEN getErrorAnalysis3(urlOrUnknown(websiteData), error)
    ELSE getEmptyAnalysis3(urlOrUnknown(websiteData))

(***************************************************************************)
(* Phase 4: CompetitorAnalysisAgent                                        *)
(***************************************************************************)
Competitor(name, score) ==
    [name |-> name, domain |-> name, positioning |-> [len |-> 40], score |-> score,
     evidence |-> <<[type |-> "serp"]>>]

\* an answer that follows PHASE4_OUTPUT_SCHEMA but lists four competitors, the last
\* one without positioning or evidence
Full4 ==
    [competitors |-> <<Competitor("rival-a.example", Pct(90)),
                       Competitor("rival-b.example", Pct(80)),
                       Competitor("rival-c.example", Pct(70)),
                       [name |-> "rival-d.example", domain |-> "rival-d.example",
                        positioning |-> [len |-> 0], score |-> Pct(10)]>>,
     overall_confidence |-> Pct(80)]

\* an answer with a single competitor that has neither score nor evidence
One4 ==
    [competitors |-> <<[name |-> "rival-a.example", domain |-> "rival-a.example",
                        positioning |-> [len |-> 5]]>>]

Objects4 == {Full4, One4, Sparse}

\* CompetitorAnalysisAgent._getEmptyAnalysis(businessIdentity)
getEmptyAnalysis4(businessIdentity) ==
    [extracted_at |-> Now,
     phase |-> "phase4_competitor_analysis",
     business_id |-> IF nameValue(businessIdentity) # "" THEN nameValue(businessIdentity)
                     ELSE "unknown",
     seed_keywords |-> {},
     competitors |-> <<>>,
     overall_confidence |-> Zero]

\* CompetitorAnalysisAgent._getErrorAnalysis(businessIdentity, error)
getErrorAnalysis4(businessIdentity, error) ==
    Put(Put(getEmptyAnalysis4(businessIdentity), "extraction_error", error),
        "extraction_status", "failed")

\* _generateSeedKeywords(businessIdentity, providedKeywords): the set of keywords, each
\* a tuple of its words
generateSeedKeywords(businessIdentity, providedKeywords) ==
    LET category == IF HasPath(businessIdentity, <<"business_identity", "category", "value">>)
                    THEN businessIdentity.business_identity.category.value ELSE ""
        offerings == ValOr(businessIdentity, "primary_offerings", <<>>)
        city == StrOr(locationOf(businessIdentity), "city", "")
    IN  providedKeywords
        \cup (IF category # "" THEN {<<category>>, <<"best", category>>,
                                     <<category, "alternatives">>, <<category, "companies">>}
              ELSE {})
        \cup {<<offerings[i].name>> : i \in {j \in DOMAIN offerings :
                                              j <= 5 /\ StrOr(offerings[j], "name", "") # ""}}
        \cup (IF category # "" /\ city # "" THEN {<<category, city>>, <<category, "in", city>>}
              ELSE {})

\* CompetitorAnalysisAgent._calculateOverallConfidence(analysis)
calculateOverallConfidence4(analysis) ==
    IF ~NonEmptyArray(analysis, "competitors") THEN Zero
    ELSE LET cs == analysis.competitors
             n == Len(cs)
             hasEvidence == Cardinality({i \in DOMAIN cs : NonEmptyArray(cs[i], "evidence")})
             hasPositioning == Cardinality({i \in DOMAIN cs :
                                   Has(cs[i], "positioning") /\ cs[i].positioning.len > 10})
             factors == <<Rat(n, 3),
                          RAvg([i \in DOMAIN cs |-> NumOr0(cs[i], "score")]),
                          Rat(hasEvidence, n),
                          Rat(hasPositioning, n)>>
         IN  RAvg(factors)

\* _validateAndFinalize(llmResult, businessIdentity, seedKeywords)
validateAndFinalize(llmResult, businessIdentity, seedKeywords) ==
    IF Truthy(llmResult.parsed) /\ llmResult.parsed.t = "string" THEN Throw(TypeError)
    ELSE LET analysis == IF Truthy(llmResult.parsed) THEN llmResult.parsed.v
                         ELSE getEmptyAnalysis4(businessIdentity)
             stamped == Put(Put(Put(Put(Put(analysis, "extracted_at", Now),
                            "phase", "phase4_competitor_analysis"),
                            "model_used", llmResult.model),
                            "business_id", getEmptyAnalysis4(businessIdentity).business_id),
                            "seed_keywords", seedKeywords)
             capped == IF Has(stamped, "competitors")
                       THEN Put(stamped, "competitors",
                                [i \in 1..(IF Len(stamped.competitors) > 3 THEN 3
                                           ELSE Len(stamped.competitors)) |->
                                    Put(stamped.competitors[i], "rank", i)])
                       ELSE stamped
         IN  Ok(Put(Put(capped,
                    "overall_confidence", calculateOverallConfidence4(capped)),
                    "_metadata",
                    [llm_tokens |-> llmResult.usage,
                     competitors_analyzed |-> IF Has(capped, "competitors")
                                              THEN Len(capped.competitors) ELSE 0,
                     seed_keywords_count |-> Cardinality(seedKeywords)]))

\* analyze(): return without a model call
immediate4(mode, businessIdentity) == getEmptyAnalysis4(businessIdentity)

\* analyze(): after complete() resolved
onResult4(businessIdentity, providedKeywords, llmResult) ==
    LET r == validateAndFinalize(llmResult, businessIdentity,
                generateSeedKeywords(businessIdentity, providedKeywords))
    IN  IF r.ok THEN r.v ELSE getErrorAnalysis4(businessIdentity, r.error)

\* analyze(): the catch block
onError4(businessIdentity, error) == getErrorAnalysis4(businessIdentity, error)

(***************************************************************************)
(* ReportConsolidator                                                      *)
(***************************************************************************)
\* _calculateOverallConfidence(): weights
weights == <<Pct(35), Pct(20), Pct(25), Pct(20)>>

\* phaseN?.overall_confidence is truthy
hasConfidence(phase) ==
    phase # Null /\ Has(phase, "overall_confidence") /\ phase.overall_confidence.n # 0

\* phaseN?.overall_confidence || 0
confidenceOr0(phase) ==
    IF phase # Null /\ Has(phase, "overall_confidence") THEN phase.overall_confidence ELSE Zero

\* ReportConsolidator._calculateOverallConfidence(phase1, phase2, phase3, phase4)
calculateOverallConfidence(phases) ==
    LET confidences == {i \in 1..4 : hasConfidence(phases[i])}
        pick(i, x) == IF i \in confidences THEN x ELSE Zero
        totalWeight == RSum([i \in 1..4 |-> pick(i, weights[i])])
        weightedSum == RSum([i \in 1..4 |->
                            pick(i, RMul(confidenceOr0(phases[i]), weights[i]))])
    IN  IF confidences = {} THEN Zero ELSE RDiv(weightedSum, totalWeight)

\* _identifyLowConfidenceAreas(phase1, phase2, phase3, phase4)
identifyLowConfidenceAreas(phases) ==
    LET low(i) == /\ phases[i] # Null
                  /\ Has(phases[i], "overall_confidence")
                  /\ RLt(phases[i].overall_confidence, Pct(50))
        lowName == /\ HasPath(phases[1], <<"business_identity", "name", "confidence">>)
                   /\ RLt(phases[1].business_identity.name.confidence, Pct(50))
    IN  (IF low(1) THEN <<"Business identity extraction">> ELSE <<>>)
        \o (IF lowName THEN <<"Business name identification">> ELSE <<>>)
        \o (IF low(2) THEN <<"External presence analysis">> ELSE <<>>)
        \o (IF low(3) THEN <<"Marketing & conversion analysis">> ELSE <<>>)
        \o (IF low(4) THEN <<"Competitor identification">> ELSE <<>>)

PhaseNames == <<"phase1", "phase2", "phase3", "phase4">>

\* [phase1 ? 'phase1' : null, ...].filter(Boolean)
namesWhere(phases, present) ==
    LET keep(i) == IF (phases[i] # Null) = present THEN <<PhaseNames[i]>> ELSE <<>>
    IN  keep(1) \o keep(2) \o keep(3) \o keep(4)

\* _buildFinalReport(llmResult, phase1, phase2, phase3, phase4, overallConfidence)
buildFinalReport(llmResult, phases, overallConfidence) ==
    LET gbp == IF HasPath(phases[2], <<"profiles", "google_business_profile">>)
               THEN phases[2].profiles.google_business_profile ELSE Null
    IN  [report_id |-> "mir_<now>",
         generated_at |-> Now,
         model_used |-> llmResult.model,
         report_markdown |-> IF Truthy(llmResult.parsed) THEN llmResult.parsed
                             ELSE JStr(llmResult.raw),
         summary |->
            [business_name |-> IF nameValue(phases[1]) # "" THEN nameValue(phases[1])
                               ELSE "Unknown",
             business_url |-> StrOr(phases[1], "url", ""),
             category |-> IF HasPath(phases[1], <<"business_identity", "category", "value">>)
                             /\ phases[1].business_identity.category.value # ""
                          THEN phases[1].business_identity.category.value ELSE "Unknown",
             location |-> locationOf(phases[1]),
             metrics |->
                [profiles_discovered |-> IF Has(phases[2], "profiles_discovered")
                                         THEN phases[2].profiles_discovered ELSE 0,
                 gbp_rating |-> IF Has(gbp, "rating") THEN gbp.rating ELSE Null,
                 gbp_reviews |-> IF Has(gbp, "review_count") THEN gbp.review_count ELSE Null,
                 total_ctas |-> IF Has(phases[3], "total_ctas") THEN phases[3].total_ctas
                                ELSE 0,
                 competitors_identified |-> IF Has(phases[4], "competitors")
                                            THEN Len(phases[4].competitors) ELSE 0]],
         overall_confidence |-> overallConfidence,
         phase_confidences |->
            [phase1_website_extraction |-> confidenceOr0(phases[1]),
             phase2_external_presence |-> confidenceOr0(phases[2]),
             phase3_marketing_conversion |-> confidenceOr0(phases[3]),
             phase4_competitor_analysis |-> confidenceOr0(phases[4])],
         data_quality |->
            [phases_completed |-> namesWhere(phases, TRUE),
             phases_missing |-> namesWhere(phases, FALSE),
             low_confidence_areas |-> identifyLowConfidenceAreas(phases)],
         phase_outputs |-> [phase1 |-> phases[1], phase2 |-> phases[2],
                            phase3 |-> phases[3], phase4 |-> phases[4]],
         _metadata |-> [llm_tokens |-> llmResult.usage, generation_model |-> llmResult.model]]

Notice(form) == JStr([form |-> form, obj |-> GenericObject])

\* _getEmptyReport()
getEmptyReport ==
    [report_id |-> "mir_<now>",
     generated_at |-> Now,
     report_markdown |-> Notice("no data notice"),
     summary |-> EmptyObject,
     overall_confidence |-> Zero,
     phase_confidences |-> EmptyObject,
     data_quality |-> [phases_completed |-> <<>>, phases_missing |-> PhaseNames],
     phase_outputs |-> EmptyObject,
     status |-> "empty"]

getErrorReport_empty(error) == getEmptyReport

\* _getErrorReport(error): the markdown is `# Market Intelligence Report ... **Error:**
\* ${error}`, the notice with the message in it
getErrorReport(error) ==
    [report_id |-> "mir_<now>",
     generated_at |-> Now,
     report_markdown |-> JStr([form |-> "error notice", obj |-> GenericObject,
                               error |-> error]),
     summary |-> EmptyObject,
     overall_confidence |-> Zero,
     error |-> error,
     status |-> "failed"]

\* consolidate(): after complete() resolved
onResult5(phases, llmResult) ==
    buildFinalReport(llmResult, phases, calculateOverallConfidence(phases))

(***************************************************************************)
(* feature_flag.js                                                         *)
(***************************************************************************)
AllEnabled ==
    [ENABLED |-> TRUE, WEBSITE_EXTRACTION_ENABLED |-> TRUE,
     EXTERNAL_PRESENCE_ENABLED |-> TRUE, MARKETING_CONVERSION_ENABLED |-> TRUE,
     COMPETITOR_ANALYSIS_ENABLED |-> TRUE]

\* isEnabled(): the environment variable, when set, overrides the flag
isEnabled ==
    IF env # Undefined THEN env \in {"true", "1"} ELSE FEATURE_FLAG.ENABLED

\* `${featureName.toUpperCase()}_ENABLED`
flagKey(featureName) ==
    CASE featureName = "WEBSITE_EXTRACTION" -> "WEBSITE_EXTRACTION_ENABLED"
      [] featureName = "EXTERNAL_PRESENCE" -> "EXTERNAL_PRESENCE_ENABLED"
      [] featureName = "MARKETING_CONVERSION" -> "MARKETING_CONVERSION_ENABLED"
      [] featureName = "COMPETITOR_ANALYSIS" -> "COMPETITOR_ANALYSIS_ENABLED"

isSubFeatureEnabled_phaseFlagOnly(featureName) ==
    /\ Has(FEATURE_FLAG, flagKey(featureName))
    /\ FEATURE_FLAG[flagKey(featureName)] = TRUE

\* isSubFeatureEnabled(featureName)
isSubFeatureEnabled(featureName) ==
    /\ isEnabled
    /\ Has(FEATURE_FLAG, flagKey(featureName))
    /\ FEATURE_FLAG[flagKey(featureName)] = TRUE

(***************************************************************************)
(* A call of a phase agent (steps 1 to 4: extract() / analyze()) or of the *)
(* consolidator (step 5: consolidate()).  The agent's constructor builds a *)
(* new OpenRouterClient; the call either returns at once or awaits one     *)
(* complete() call of that client.                                         *)
(***************************************************************************)
Steps == 1..5

\* this.phase of the agent of each step
phaseOf(step) ==
    CASE step = 1 -> "phase1_website_extraction"
      [] step = 2 -> "phase2_external_presence"
      [] step = 3 -> "phase3_marketing_conversion"
      [] step = 4 -> "phase4_competitor_analysis"
      [] step = 5 -> "report_consolidation"

\* the JSON objects the model of a phase may answer with
ObjectsOf(phase) ==
    CASE phase = "phase1_website_extraction" -> Objects1
      [] phase = "phase2_external_presence" -> Objects2
      [] phase = "phase3_marketing_conversion" -> Objects3
      [] phase = "phase4_competitor_analysis" -> Objects4
      [] OTHER -> {GenericObject}

IdleAgent == [pc |-> "idle", step |-> 0, mode |-> "", args |-> Null, result |-> Null,
              exception |-> "none"]

\* the branch an agent takes on entry
modeOf(step, args) ==
    CASE step = 1 -> extractMode(isEnabled, args.websiteData)
      [] step = 2 -> analyzeMode2(isEnabled, args.businessIdentity)
      [] step = 3 -> analyzeMode3(isEnabled, args.websiteData)
      [] step = 4 -> IF isEnabled THEN "analyze" ELSE "disabled"
      [] step = 5 -> IF isEnabled THEN "consolidate" ELSE "disabled"

\* what an agent returns without a model call
immediateOf(step, mode, args) ==
    CASE step = 1 -> immediate1(mode, args.websiteData)
      [] step = 2 -> immediate2(mode, args.businessIdentity)
      [] step = 3 -> immediate3(mode, args.businessIdentity)
      [] step = 4 -> immediate4(mode, args.businessIdentity)
      [] step = 5 -> getEmptyReport

\* what an agent returns after complete() resolved with llmResult
onResultOf(step, mode, args, llmResult) ==
    CASE step = 1 -> onResult1(mode, args.websiteData, llmResult)
      [] step = 2 -> onResult2(mode, args.businessIdentity, llmResult)
      [] step = 3 -> onResult3(mode, args.businessIdentity, args.websiteData, llmResult)
      [] step = 4 -> onResult4(args.businessIdentity, args.seedKeywords, llmResult)
      [] step = 5 -> onResult5(args.phases, llmResult)

\* whether validating llmResult threw (into the catch block of the agent, or into
\* the catch block around JSON.parse in the description and estimation paths)
validationThrew(step, mode, args, llmResult) ==
    CASE step = 1 ->
            IF mode = "website" THEN ~validateAndReconcile(llmResult, args.websiteData).ok
            ELSE /\ Truthy(llmResult.parsed)
                 /\ llmResult.parsed.t = "string"
                 /\ llmResult.parsed.content.form = "broken"
      [] step = 2 ->
            IF mode = "identity" THEN ~validateAndEnrich2(llmResult, args.businessIdentity).ok
            ELSE ~parsedOrRaw(llmResult).ok
      [] step = 3 ->
            IF mode = "website" THEN ~validateAndEnrich3(llmResult, args.websiteData).ok
            ELSE ~parsedOrRaw(llmResult).ok
      [] step = 4 ->
            ~validateAndFinalize(llmResult, args.businessIdentity,
                generateSeedKeywords(args.businessIdentity, args.seedKeywords)).ok
      [] step = 5 -> FALSE

\* what the catch block of an agent returns after complete() rejected with error
onErrorOf(step, mode, args, error) ==
    CASE step = 1 -> onError1(mode, args.websiteData, error)
      [] step = 2 -> onError2(mode, args.businessIdentity, error)
      [] step = 3 -> onError3(mode, args.websiteData, error)
      [] step = 4 -> onError4(args.businessIdentity, error)
      [] step = 5 -> getErrorReport(error)

caught_rethrow(artifact, error) == Throw(error)

\* try { ... await this.llmClient.complete(...) ... } catch (error) { return artifact }
caught(artifact, error) == Ok(artifact)

\* new Agent(config, logger, apiKey) and agent.extract() / analyze() / consolidate()
\* up to its first await of the client, or to its return when there is none
agentEnter(step, args) ==
    LET mode == modeOf(step, args)
        returns(m) ==
            /\ agent' = [pc |-> "returned", step |-> step, mode |-> m, args |-> args,
                         result |-> Ok(immediateOf(step, m, args)), exception |-> "none"]
            /\ UNCHANGED <<call, log, outcome>>
        awaits ==
            /\ agent' = [pc |-> "awaiting", step |-> step, mode |-> mode, args |-> args,
                         result |-> Null, exception |-> "none"]
            /\ startComplete(phaseOf(step))
    IN  /\ usageStats' = 0
        /\ UNCHANGED config
        /\ IF mode \in {"disabled", "none"} THEN returns(mode)
           ELSE IF step = 2
           THEN \E search \in SearchOutcomes :
                    IF search = "found" THEN returns("found") ELSE awaits
           ELSE awaits

\* the agent resumes after complete() settled, and returns
AgentReturns ==
    /\ agent.pc = "awaiting"
    /\ call.pc \in {"returned", "rejected"}
    /\ agent' =
          IF call.pc = "returned"
          THEN [agent EXCEPT
                  !.pc = "returned",
                  !.result = Ok(onResultOf(agent.step, agent.mode, agent.args, outcome)),
                  !.exception = IF validationThrew(agent.step, agent.mode, agent.args, outcome)
                                THEN "validation" ELSE "none"]
          ELSE [agent EXCEPT
                  !.pc = "returned",
                  !.result = caught(onErrorOf(agent.step, agent.mode, agent.args, outcome),
                                    outcome),
                  !.exception = "model_call"]
    /\ call' = IdleCall
    /\ log' = <<>>
    /\ outcome' = NoOutcome
    /\ UNCHANGED <<config, usageStats, FEATURE_FLAG, env, orch, run>>

(***************************************************************************)
(* EnhancedMarketOrchestrator: the instance                                *)
(***************************************************************************)
ApiKey == "sk-or-key"

NoResults == [phase1 |-> Null, phase2 |-> Null, phase3 |-> Null, phase4 |-> Null,
              consolidatedReport |-> Null]

\* constructor(openRouterApiKey = null)
Orchestrator(openRouterApiKey) ==
    [executionId |-> "<null>", config |-> Null, checkpoint |-> Null,
     openRouterApiKey |-> openRouterApiKey, results |-> NoResults]

\* an execute() call that has not started: call counts the calls on the instance,
\* entry keeps the flags and the environment its entry check read
IdleRun == [pc |-> "idle", step |-> 0, input |-> Null, result |-> [kind |-> "none"],
            invoked |-> <<>>, skipped |-> {}, failed |-> {}, delayMs |-> 0,
            outputs |-> {}, call |-> 1, entry |-> Null]

(***************************************************************************)
(* The completion endpoint answers or fails a request of the running       *)
(* complete() call.                                                        *)
(***************************************************************************)
\* _executeCompletion(): _makeApiRequest() resolved with response:
\* _updateUsageStats, _parseResponse, return
resolved(response) ==
    /\ outcome' = parseResponse(response, phaseConfig(call.phase).requiresJson)
    /\ usageStats' = IF response.usage THEN usageStats + 1 ELSE usageStats
    /\ call' = [IdleCall EXCEPT !.pc = "returned", !.phase = call.phase]
    /\ UNCHANGED <<config, log>>
    /\ UNCHANGED pipelineVars

\* _makeApiRequest() resolves
RequestSucceeds ==
    /\ call.pc = "request"
    /\ \E response \in Responses(call.model, ObjectsOf(call.phase)) : resolved(response)

\* the catch block of _executeCompletion() and, once the loop is over, the catch
\* blocks of complete()
afterFailure(error) ==
    IF call.attempt < attemptsOf(call.stage)
    THEN /\ call' = [call EXCEPT !.pc = "delay", !.lastError = error]
         /\ log' = Append(log, Delay(call.model, call.attempt, backoffDelay(call.attempt)))
         /\ UNCHANGED outcome
    ELSE IF call.stage = "primary" /\ phaseConfig(call.phase).fallbackModel # NoModel
    THEN /\ call' = [call EXCEPT !.pc = "request", !.stage = "fallback",
                                 !.model = phaseConfig(call.phase).fallbackModel,
                                 !.attempt = 1, !.lastError = error]
         /\ log' = Append(log, Request(phaseConfig(call.phase).fallbackModel, 1))
         /\ UNCHANGED outcome
    ELSE /\ call' = [IdleCall EXCEPT !.pc = "rejected", !.phase = call.phase,
                                     !.lastError = error]
         /\ outcome' = IF call.stage = "primary"
                       THEN rethrown(error)
                       ELSE allModelsFailed(call.phase, error)
         /\ UNCHANGED log

\* _makeApiRequest() rejects
RequestFails ==
    /\ call.pc = "request"
    /\ \E error \in RequestErrors(call.model) : afterFailure(error)
    /\ UNCHANGED <<config, usageStats>>
    /\ UNCHANGED pipelineVars

\* the backoff timer of _delay() fires: the next attempt of the loop
DelayElapses ==
    /\ call.pc = "delay"
    /\ call' = [call EXCEPT !.pc = "request", !.attempt = call.attempt + 1]
    /\ log' = Append(log, Request(call.model, call.attempt + 1))
    /\ UNCHANGED <<config, outcome, usageStats>>
    /\ UNCHANGED pipelineVars

(***************************************************************************)
(* SpecClient: one complete() call on a client with any configuration.     *)
(***************************************************************************)
InitClient ==
    /\ config \in Configs
    /\ call = IdleCall
    /\ log = <<>>
    /\ outcome = NoOutcome
    /\ usageStats = 0
    /\ FEATURE_FLAG = AllEnabled
    /\ env = Undefined
    /\ agent = IdleAgent
    /\ orch = Orchestrator(ApiKey)
    /\ run = IdleRun

complete ==
    /\ call.pc = "idle"
    /\ \E phase \in {"phase1_website_extraction", "report_consolidation"} :
          startComplete(phase)
    /\ UNCHANGED <<config, usageStats>>
    /\ UNCHANGED pipelineVars

NextClient ==
    \/ complete
    \/ RequestSucceeds
    \/ RequestFails
    \/ DelayElapses

SpecClient == InitClient /\ [][NextClient]_vars

(***************************************************************************)
(* SpecAgent: one call of one agent (or of the consolidator), with any     *)
(* flag setting, with the default or the documented client configuration,  *)
(* on arguments as the orchestrator or another caller may pass them.       *)
(***************************************************************************)
\* config/openrouter_config.json as documented: no api section, a configuration per
\* phase, requiresJson for phase 1 only
FileConfig ==
    [maxRetries |-> 0, retryDelayMs |-> 0,
     phases |-> [p \in PhaseIds |->
        IF p \in {"phase3_marketing_conversion", "phase4_competitor_analysis"}
        THEN [primaryModel |-> FallbackModel, fallbackModel |-> PrimaryModel,
              requiresJson |-> FALSE]
        ELSE [primaryModel |-> PrimaryModel, fallbackModel |-> FallbackModel,
              requiresJson |-> (p = "phase1_website_extraction")]]]

MasterOff == [AllEnabled EXCEPT !.ENABLED = FALSE]

\* what complete() resolves with for a JSON answer obj (requiresJson set or not)
Answered(obj, requiresJson) ==
    parseResponse([model |-> PrimaryModel, content |-> [form |-> "json", obj |-> obj],
                   usage |-> TRUE], requiresJson)

RichWebsite == [url |-> TargetUrl, html |-> RichHtml, textContent |-> LongText]

\* Phase 1 artifacts: empty, complete, and one built from an answer without schema keys
Profiles ==
    {getEmptyProfile(TargetUrl),
     onResult1("website", RichWebsite, Answered(Full1, TRUE)),
     onResult1("website", RichWebsite, Answered(Sparse, TRUE)),
     onResult1("description", RichWebsite, Answered(Full1, FALSE))}

\* _executePhase2(): the identity used when there is no Phase 1 artifact
rawIdentity(websiteUrl) ==
    [url |-> websiteUrl,
     business_identity |-> [name |-> [value |-> ""], location |-> EmptyObject]]

Presences ==
    {getEmptyAnalysis2(rawIdentity(TargetUrl)),
     onResult2("estimation", rawIdentity(TargetUrl), Answered(Full2, FALSE))}

Analyses3 ==
    {getEmptyAnalysis3(TargetUrl),
     onResult3("description", Null, RichWebsite, Answered(Full3, FALSE))}

Analyses4 ==
    {getEmptyAnalysis4(Null),
     onResult4(Null, {}, Answered(Full4, TRUE))}

OrNull(S) == S \cup {Null}

KeywordSets == {{}, {<<"plumber">>}}

ArgsOf(step) ==
    CASE step = 1 -> {[websiteData |-> wd] : wd \in WebsiteDatas}
      [] step = 2 -> {[businessIdentity |-> bi] :
                        bi \in Profiles \cup {rawIdentity(TargetUrl), rawIdentity(Undefined)}}
      [] step = 3 -> {[businessIdentity |-> bi, websiteData |-> wd, externalPresence |-> ep] :
                        bi \in OrNull(Profiles),
                        wd \in {w \in WebsiteDatas : w.html # PlainHtml},
                        ep \in OrNull({getEmptyAnalysis2(rawIdentity(TargetUrl))})}
      [] step = 4 -> {[businessIdentity |-> bi, seedKeywords |-> kw] :
                        bi \in OrNull(Profiles), kw \in KeywordSets}
      [] step = 5 -> {[phases |-> <<p1, p2, p3, p4>>] :
                        p1 \in OrNull(Profiles), p2 \in OrNull(Presences),
                        p3 \in OrNull(Analyses3), p4 \in OrNull(Analyses4)}

InitAgent ==
    /\ config \in {DefaultConfig, FileConfig}
    /\ call = IdleCall
    /\ log = <<>>
    /\ outcome = NoOutcome
    /\ usageStats = 0
    /\ FEATURE_FLAG \in {AllEnabled, MasterOff}
    /\ env \in {Undefined, "true", "1", "false"}
    /\ agent = IdleAgent
    /\ orch = Orchestrator(ApiKey)
    /\ run = IdleRun

\* a caller constructs an agent and calls it
Invoke ==
    /\ agent.pc = "idle"
    /\ \E step \in Steps : \E args \in ArgsOf(step) : agentEnter(step, args)
    /\ UNCHANGED <<FEATURE_FLAG, env, orch, run>>

NextAgent ==
    \/ Invoke
    \/ RequestSucceeds
    \/ RequestFails
    \/ DelayElapses
    \/ AgentReturns

SpecAgent == InitAgent /\ [][NextAgent]_vars

(***************************************************************************)
(* Spec: one execute() call of an orchestrator.  The deployment (flags,    *)
(* environment, client configuration, API key) is fixed while it runs.     *)
(***************************************************************************)
\* ConfigLoader.load(): humanPacing of the default configuration
LoadedConfig == [humanPacing |-> [enabled |-> TRUE, minDelayMs |-> 2000, maxDelayMs |-> 7000]]

\* execute(input): no input at all, a site with html and text, a description only,
\* nothing but seed keywords, and a site handed over as pre-scraped websiteData
Inputs ==
    {Null,
     [websiteUrl |-> TargetUrl, websiteData |-> Null, html |-> RichHtml,
      textContent |-> LongText, seedKeywords |-> {}],
     [websiteUrl |-> TargetUrl, websiteData |-> Null, html |-> NoHtml,
      textContent |-> Description, seedKeywords |-> {<<"plumber">>}],
     [websiteUrl |-> Undefined, websiteData |-> Null, html |-> NoHtml,
      textContent |-> NoText, seedKeywords |-> {<<"plumber">>}],
     [websiteUrl |-> TargetUrl,
      websiteData |-> [url |-> TargetUrl, html |-> PlainHtml, textContent |-> ShortText],
      html |-> NoHtml, textContent |-> NoText, seedKeywords |-> {}]}

\* the flag of each phase step
featureOf(step) ==
    CASE step = 1 -> "WEBSITE_EXTRACTION"
      [] step = 2 -> "EXTERNAL_PRESENCE"
      [] step = 3 -> "MARKETING_CONVERSION"
      [] step = 4 -> "COMPETITOR_ANALYSIS"

\* the key of this.results each step writes
resultKey(step) ==
    CASE step = 1 -> "phase1"
      [] step = 2 -> "phase2"
      [] step = 3 -> "phase3"
      [] step = 4 -> "phase4"
      [] step = 5 -> "consolidatedReport"

\* _saveCheckpoint(phase, data): the phase name
checkpointName(step) == IF step = 5 THEN "consolidation" ELSE resultKey(step)

\* input.websiteData || { url: input.websiteUrl, html: input.html || '', ... }
websiteDataOf(input) ==
    IF input.websiteData # Null THEN input.websiteData
    ELSE [url |-> input.websiteUrl, html |-> input.html, textContent |-> input.textContent]

\* what _executePhaseN() / _consolidateReport() pass to the agent
argsFor(step, input, results) ==
    CASE step = 1 -> [websiteData |-> websiteDataOf(input)]
      [] step = 2 -> [businessIdentity |-> IF results.phase1 # Null THEN results.phase1
                                           ELSE rawIdentity(input.websiteUrl)]
      [] step = 3 -> [businessIdentity |-> results.phase1,
                      websiteData |-> websiteDataOf(input),
                      externalPresence |-> results.phase2]
      [] step = 4 -> [businessIdentity |-> results.phase1,
                      seedKeywords |-> input.seedKeywords]
      [] step = 5 -> [phases |-> <<results.phase1, results.phase2, results.phase3,
                                   results.phase4>>]

saveResult_dropped(results, step, artifact) == results

\* this.results.phaseN = await agent...(...)
saveResult(results, step, artifact) == [results EXCEPT ![resultKey(step)] = artifact]

\* _saveCheckpoint(phase, data)
saveCheckpoint(step, data) == [phase |-> checkpointName(step), data |-> data, timestamp |-> Now]

\* _humanDelay(): if (!this.config?.humanPacing?.enabled) return
pacingEnabled(pacing) == Has(pacing, "enabled") /\ pacing.enabled

\* _humanDelay(): min = minDelayMs || 2000, max = maxDelayMs || 7000, and
\* Math.floor(Math.random() * (max - min)) + min at both ends of its range: from min
\* to max - 1 when min < max, min when they are equal, from max to min when min > max
humanDelays(pacing) ==
    LET min == IF Has(pacing, "minDelayMs") /\ pacing.minDelayMs # 0
               THEN pacing.minDelayMs ELSE 2000
        max == IF Has(pacing, "maxDelayMs") /\ pacing.maxDelayMs # 0
               THEN pacing.maxDelayMs ELSE 7000
    IN  IF min < max THEN {min, max - 1} ELSE {max, min}

handleFatalError_rethrow(error) == [kind |-> "threw", value |-> Null, error |-> error.name]

\* catch (error) { return this._handleFatalError(error) }: logs, returns null
handleFatalError(error) == [kind |-> "returned", value |-> Null, error |-> error.name]

NotFatal == "none"

\* return value of execute() without a fatal error
returned(value) == [kind |-> "returned", value |-> value, error |-> NotFatal]

\* the names of the files _writeOutputs() hands to the writer
outputFiles(results) ==
    {resultKey(step) : step \in {n \in Steps : results[resultKey(n)] # Null}}
    \cup (IF results.consolidatedReport # Null
             /\ Truthy(results.consolidatedReport.report_markdown)
          THEN {"market_intelligence_report"} ELSE {})

preconditionsHold_flagOnly(openRouterApiKey) == isEnabled

\* execute(): if (!isEnabled()) return null; if (!this.openRouterApiKey) return null
preconditionsHold(openRouterApiKey) == isEnabled /\ openRouterApiKey # "<null>"

\* execute(input): the checks, _initialize(input), with loaded what
\* ConfigLoader.load() returns
executeWith(loaded) ==
    /\ run.pc = "idle"
    /\ \E input \in Inputs :
          LET entry == [flags |-> FEATURE_FLAG, env |-> env]
          IN  IF ~preconditionsHold(orch.openRouterApiKey)
              THEN /\ run' = [run EXCEPT !.pc = "done", !.input = input, !.entry = entry,
                                         !.result = returned(Null)]
                   /\ UNCHANGED orch
              ELSE IF input = Null
              THEN /\ run' = [run EXCEPT !.pc = "done", !.input = input, !.entry = entry,
                                         !.result = handleFatalError(TypeError)]
                   /\ orch' = [orch EXCEPT !.executionId = "mi_<now>",
                                           !.config = loaded]
              ELSE /\ run' = [run EXCEPT !.pc = "step", !.step = 1, !.input = input,
                                         !.entry = entry]
                   /\ orch' = [orch EXCEPT !.executionId = "mi_<now>",
                                           !.config = loaded]
    /\ UNCHANGED <<clientVars, FEATURE_FLAG, env, agent>>

\* execute(input) with the configuration of ConfigLoader._getDefaultConfig()
Execute == executeWith(LoadedConfig)

\* if (isSubFeatureEnabled(...)) await this._executePhaseN(input): up to the agent call
ExecutePhase ==
    /\ run.pc = "step"
    /\ run.step \in 1..4
    /\ isSubFeatureEnabled(featureOf(run.step))
    /\ agentEnter(run.step, argsFor(run.step, run.input, orch.results))
    /\ run' = [run EXCEPT !.pc = "agent", !.invoked = Append(run.invoked, run.step)]
    /\ UNCHANGED <<FEATURE_FLAG, env, orch>>

\* a disabled phase ends the run instead of being passed over
SkipPhase_endsRun ==
    /\ run.pc = "step"
    /\ run.step \in 1..4
    /\ ~isSubFeatureEnabled(featureOf(run.step))
    /\ run' = [run EXCEPT !.pc = "done", !.skipped = run.skipped \cup {run.step},
                           !.result = returned(Null)]
    /\ UNCHANGED <<clientVars, FEATURE_FLAG, env, agent, orch>>

\* else this.logger.info('[SKIP] ...')
SkipPhase ==
    /\ run.pc = "step"
    /\ run.step \in 1..4
    /\ ~isSubFeatureEnabled(featureOf(run.step))
    /\ run' = [run EXCEPT !.step = run.step + 1, !.skipped = run.skipped \cup {run.step}]
    /\ UNCHANGED <<clientVars, FEATURE_FLAG, env, agent, orch>>

\* await this._consolidateReport(): up to the call of the consolidator
ConsolidateReport ==
    /\ run.pc = "step"
    /\ run.step = 5
    /\ agentEnter(5, argsFor(5, run.input, orch.results))
    /\ run' = [run EXCEPT !.pc = "agent", !.invoked = Append(run.invoked, 5)]
    /\ UNCHANGED <<FEATURE_FLAG, env, orch>>

\* the agent call is not awaited: execute() moves on while the agent still runs
PhaseCompletes_notAwaited ==
    /\ run.pc = "agent"
    /\ agent.pc \in {"awaiting", "returned"}
    /\ run' = [run EXCEPT !.pc = IF run.step = 5 THEN "writing" ELSE "step",
                           !.step = IF run.step < 5 THEN run.step + 1 ELSE run.step]
    /\ UNCHANGED <<clientVars, FEATURE_FLAG, env, agent, orch>>

\* the agent call settles: store the artifact, save the checkpoint, then pace
\* (_executePhaseN) or write the outputs (after _consolidateReport); a rejected agent
\* call goes to the catch block of execute()
PhaseCompletes ==
    /\ run.pc = "agent"
    /\ agent.pc = "returned"
    /\ agent' = IdleAgent
    /\ IF ~agent.result.ok
       THEN /\ run' = [run EXCEPT !.pc = "done",
                                  !.result = handleFatalError(agent.result.error),
                                  !.failed = IF agent.exception = "model_call"
                                             THEN run.failed \cup {run.step}
                                             ELSE run.failed]
            /\ UNCHANGED orch
       ELSE /\ orch' = [orch EXCEPT
                          !.results = saveResult(orch.results, run.step, agent.result.v),
                          !.checkpoint = saveCheckpoint(run.step, agent.result.v)]
            /\ \E delayMs \in humanDelays(orch.config.humanPacing) :
                  run' = [run EXCEPT
                            !.pc = IF run.step = 5 THEN "writing"
                                   ELSE IF pacingEnabled(orch.config.humanPacing) THEN "pacing"
                                   ELSE "step",
                            !.step = IF run.step < 5 /\ ~pacingEnabled(orch.config.humanPacing)
                                     THEN run.step + 1 ELSE run.step,
                            !.delayMs = IF run.step < 5 /\ pacingEnabled(orch.config.humanPacing)
                                        THEN delayMs ELSE 0,
                            !.failed = IF agent.exception = "model_call"
                                       THEN run.failed \cup {run.step} ELSE run.failed]
    /\ UNCHANGED <<clientVars, FEATURE_FLAG, env>>

\* the timer of _humanDelay() fires: on to the next step
PacingElapses ==
    /\ run.pc = "pacing"
    /\ run' = [run EXCEPT !.pc = "step", !.step = run.step + 1, !.delayMs = 0]
    /\ UNCHANGED <<clientVars, FEATURE_FLAG, env, agent, orch>>

\* await this._writeOutputs(); return this.results.consolidatedReport.  The writer
\* returns false instead of throwing, so a file may be missing afterwards.
WriteOutputs ==
    /\ run.pc = "writing"
    /\ \E written \in {outputFiles(orch.results), {}} :
          run' = [run EXCEPT !.pc = "done", !.outputs = written,
                             !.result = returned(orch.results.consolidatedReport)]
    /\ UNCHANGED <<clientVars, FEATURE_FLAG, env, agent, orch>>

\* the answer of a phase's model that follows the schema of the phase
completeAnswer(phase) ==
    CASE phase = "phase1_website_extraction" -> Full1
      [] phase = "phase2_external_presence" -> Full2
      [] phase = "phase3_marketing_conversion" -> Full3
      [] phase = "phase4_competitor_analysis" -> Full4
      [] OTHER -> GenericObject

\* the answers of the endpoint within a run: JSON that follows the schema of the
\* phase, JSON without any of its keys, or prose
RunResponses(model, phase) ==
    {[model |-> model, content |-> c, usage |-> TRUE] :
        c \in {[form |-> "json", obj |-> completeAnswer(phase)],
               [form |-> "json", obj |-> Sparse],
               [form |-> "prose", obj |-> GenericObject]}}

\* _makeApiRequest() resolves within a run
RunRequestSucceeds ==
    /\ call.pc = "request"
    /\ \E response \in RunResponses(call.model, call.phase) : resolved(response)

\* _makeApiRequest() rejects within a run: the abort timer fired
RunRequestFails ==
    /\ call.pc = "request"
    /\ afterFailure([kind |-> "timeout", words |-> {}])
    /\ UNCHANGED <<config, usageStats>>
    /\ UNCHANGED pipelineVars

\* FEATURE_FLAG with the master flag set and the phase flags of the steps in
\* disabled cleared
phaseFlags(disabled) ==
    [k \in DOMAIN AllEnabled |->
        ~\E step \in disabled : k = flagKey(featureOf(step))]

\* the deployments: every subset of the phase flags cleared, a phase flag missing,
\* the master flag cleared, the environment variable overriding the master flag
\* either way
Deployments ==
    {[flags |-> phaseFlags(disabled), env |-> Undefined] : disabled \in SUBSET (1..4)}
    \cup
    {[flags |-> phaseFlags({3}), env |-> "true"],
     [flags |-> [k \in DOMAIN AllEnabled \ {"EXTERNAL_PRESENCE_ENABLED"} |-> TRUE],
      env |-> Undefined],
     [flags |-> MasterOff, env |-> Undefined],
     [flags |-> MasterOff, env |-> "1"],
     [flags |-> AllEnabled, env |-> "false"]}

Init ==
    /\ config \in {DefaultConfig, FileConfig}
    /\ call = IdleCall
    /\ log = <<>>
    /\ outcome = NoOutcome
    /\ usageStats = 0
    /\ \E d \in Deployments : FEATURE_FLAG = d.flags /\ env = d.env
    /\ agent = IdleAgent
    /\ orch \in {Orchestrator(ApiKey), Orchestrator("<null>")}
    /\ run = IdleRun

Next ==
    \/ Execute
    \/ ExecutePhase
    \/ SkipPhase
    \/ ConsolidateReport
    \/ RunRequestSucceeds
    \/ RunRequestFails
    \/ DelayElapses
    \/ AgentReturns
    \/ PhaseCompletes
    \/ PacingElapses
    \/ WriteOutputs

Spec == Init /\ [][Next]_vars

(***************************************************************************)
(* SpecReuse: an orchestrator instance in a running process.  execute() is *)
(* called on it, and called again when it returned; meanwhile the host     *)
(* clears flags of FEATURE_FLAG or sets the environment variable.  The     *)
(* endpoint answers every request with JSON that follows the schema.       *)
(***************************************************************************)
MaxCalls == 2
MaxChanges == 1

\* the changes the host has made to the flags and the environment so far
changes ==
    Cardinality({k \in DOMAIN FEATURE_FLAG : ~FEATURE_FLAG[k]})
    + (IF env = Undefined THEN 0 ELSE 1)

\* FEATURE_FLAG.<KEY> = false, by the host, at any time
DisableFlag ==
    /\ changes < MaxChanges
    /\ \E key \in {k \in DOMAIN FEATURE_FLAG : FEATURE_FLAG[k]} :
          FEATURE_FLAG' = [FEATURE_FLAG EXCEPT ![key] = FALSE]
    /\ UNCHANGED <<clientVars, env, agent, orch, run>>

\* process.env.MARKET_INTEL_ENABLED = 'false', by the host, at any time
OverrideEnv ==
    /\ changes < MaxChanges
    /\ env = Undefined
    /\ env' = "false"
    /\ UNCHANGED <<clientVars, FEATURE_FLAG, agent, orch, run>>

\* execute() has returned; the caller is about to call it again on the same instance
ExecuteAgain ==
    /\ run.pc = "done"
    /\ run.call < MaxCalls
    /\ run' = [IdleRun EXCEPT !.call = run.call + 1]
    /\ UNCHANGED <<clientVars, FEATURE_FLAG, env, agent, orch>>

\* _makeApiRequest() resolves with the answer that follows the schema of the phase
AnswerFollowsSchema ==
    /\ call.pc = "request"
    /\ resolved([model |-> call.model,
                 content |-> [form |-> "json", obj |-> completeAnswer(call.phase)],
                 usage |-> TRUE])

InitReuse ==
    /\ config = FileConfig
    /\ call = IdleCall
    /\ log = <<>>
    /\ outcome = NoOutcome
    /\ usageStats = 0
    /\ FEATURE_FLAG = AllEnabled
    /\ env = Undefined
    /\ agent = IdleAgent
    /\ orch = Orchestrator(ApiKey)
    /\ run = IdleRun

NextReuse ==
    \/ Execute
    \/ ExecutePhase
    \/ SkipPhase
    \/ ConsolidateReport
    \/ AnswerFollowsSchema
    \/ AgentReturns
    \/ PhaseCompletes
    \/ PacingElapses
    \/ WriteOutputs
    \/ ExecuteAgain
    \/ DisableFlag
    \/ OverrideEnv

SpecReuse == InitReuse /\ [][NextReuse]_vars

(***************************************************************************)
(* SpecPacing: one execute() call under a deployment that has edited the   *)
(* humanPacing section of the configuration ConfigLoader returns, or has a *)
(* phase flag cleared or removed.  The endpoint answers every request with *)
(* JSON that follows the schema.                                           *)
(***************************************************************************)
\* humanPacing as deployed: the default, switched off, without its enabled key,
\* with a window that starts at 0, with a window of one value, without its bounds
PacingConfigs ==
    {LoadedConfig,
     [humanPacing |-> [enabled |-> FALSE, minDelayMs |-> 2000, maxDelayMs |-> 7000]],
     [humanPacing |-> [minDelayMs |-> 2000, maxDelayMs |-> 7000]],
     [humanPacing |-> [enabled |-> TRUE, minDelayMs |-> 0, maxDelayMs |-> 1000]],
     [humanPacing |-> [enabled |-> TRUE, minDelayMs |-> 3000, maxDelayMs |-> 3000]],
     [humanPacing |-> [enabled |-> TRUE]]}

\* FEATURE_FLAG without the key of phase 2
NoPhase2Flag == [k \in DOMAIN AllEnabled \ {"EXTERNAL_PRESENCE_ENABLED"} |-> TRUE]

\* execute(input) under the deployed configuration
ExecuteConfigured == \E loaded \in PacingConfigs : executeWith(loaded)

InitPacing ==
    /\ config = FileConfig
    /\ call = IdleCall
    /\ log = <<>>
    /\ outcome = NoOutcome
    /\ usageStats = 0
    /\ FEATURE_FLAG \in {AllEnabled, phaseFlags({3}), NoPhase2Flag}
    /\ env = Undefined
    /\ agent = IdleAgent
    /\ orch = Orchestrator(ApiKey)
    /\ run = IdleRun

NextPacing ==
    \/ ExecuteConfigured
    \/ ExecutePhase
    \/ SkipPhase
    \/ ConsolidateReport
    \/ AnswerFollowsSchema
    \/ AgentReturns
    \/ PhaseCompletes
    \/ PacingElapses
    \/ WriteOutputs

SpecPacing == InitPacing /\ [][NextPacing]_vars

(***************************************************************************)
(* Properties of the model client (SpecClient).                            *)
(***************************************************************************)
RequestsTo(model) == {i \in DOMAIN log : log[i].ev = "request" /\ log[i].model = model}
PrimaryRequests == RequestsTo(PrimaryModel)
FallbackRequests == RequestsTo(FallbackModel)
fallbackConfigured == phaseConfig(call.phase).fallbackModel # NoModel

\* every wait follows the failed attempt a < N it belongs to and lasts retryDelayMs * a;
\* attempt a > 1 of a model is sent only after the wait of attempt a - 1
LinearBackoff(model) ==
    \A i \in DOMAIN log :
        /\ (log[i].ev = "delay" /\ log[i].model = model) =>
              /\ log[i].attempt < maxRetries
              /\ log[i].ms = retryDelay * log[i].attempt
              /\ i > 1
              /\ log[i - 1] = Request(model, log[i].attempt)
        /\ (log[i].ev = "request" /\ log[i].model = model /\ log[i].attempt > 1) =>
              /\ log[i - 1].ev = "delay"
              /\ log[i - 1].model = model
              /\ log[i - 1].attempt = log[i].attempt - 1

C6_FallbackRequestedOnce ==
    /\ Cardinality(FallbackRequests) <= 1
    /\ (call.pc \in {"request", "delay", "returned", "rejected"} /\ ~fallbackConfigured) =>
           FallbackRequests = {}

\* C6: once the primary is exhausted the fallback model, when one is configured,
\* goes through the same retry loop: up to N requests, a wait of retryDelayMs * a
\* after its failed attempt a < N, and the call is rejected only after N failed
\* fallback requests; with no fallback configured no further request is made.
C6_FallbackRetriedLikePrimary ==
    /\ Cardinality(FallbackRequests) <= maxRetries
    /\ LinearBackoff(FallbackModel)
    /\ FallbackRequests # {} =>
           /\ fallbackConfigured
           /\ Cardinality(PrimaryRequests) = maxRetries
    /\ (call.pc = "rejected" /\ fallbackConfigured) =>
           Cardinality(FallbackRequests) = maxRetries
    /\ (call.pc = "rejected" /\ ~fallbackConfigured) =>
           /\ FallbackRequests = {}
           /\ log[Len(log)] = Request(PrimaryModel, maxRetries)

\* the fallback model has been requested three times
C6_Witness ==
    /\ call.stage = "fallback"
    /\ call.pc = "request"
    /\ Cardinality(FallbackRequests) = 3
    /\ log[Len(log) - 1].ms = 2 * retryDelay

\* C7: when every primary request was rejected and a fallback request succeeds,
\* complete() resolves with the fallback's result (result.model is the fallback
\* model); the primary failure is not thrown.
C7_FallbackResultReturned ==
    (call.pc = "returned" /\ FallbackRequests # {}) =>
        /\ outcome.kind = "result"
        /\ outcome.model = phaseConfig(call.phase).fallbackModel
        /\ outcome.model # PrimaryModel
        /\ Cardinality(PrimaryRequests) = maxRetries

\* all three primary requests failed and the first fallback request succeeded
C7_Witness ==
    /\ call.pc = "returned"
    /\ Cardinality(PrimaryRequests) = 3
    /\ Cardinality(FallbackRequests) = 1
    /\ outcome.kind = "result"
    /\ outcome.model = FallbackModel

\* C8 as stated: when both models fail, complete() rejects with an error that names
\* the phase and both models.
C8_ErrorNamesPhaseAndBothModels ==
    (call.pc = "rejected" /\ fallbackConfigured) =>
        /\ outcome.kind = "error"
        /\ {call.phase, PrimaryModel, FallbackModel} \subseteq outcome.words

\* C8: when both models fail, complete() rejects with the error "All models failed
\* for phase <phase>: <message of the fallback's last error>": it names the phase and
\* repeats the fallback's last error, and names a model only where that message does.
C8_ErrorNamesPhaseAndFallbackError ==
    (call.pc = "rejected" /\ fallbackConfigured) =>
        /\ outcome.kind = "error"
        /\ outcome.name = "all_models_failed"
        /\ outcome.cause = call.lastError.kind
        /\ outcome.words = {call.phase} \cup call.lastError.words
        /\ call.phase \in outcome.words
        /\ Cardinality(PrimaryRequests) = maxRetries
        /\ Cardinality(FallbackRequests) = maxRetries

\* both models failed and the fallback's last failure was a timeout
C8_Witness ==
    /\ call.pc = "rejected"
    /\ fallbackConfigured
    /\ outcome.kind = "error"
    /\ outcome.name = "all_models_failed"
    /\ outcome.cause = "timeout"
    /\ outcome.words = {call.phase}

(***************************************************************************)
(* Properties of the orchestrator (Spec).                                  *)
(***************************************************************************)
invokedSteps == {run.invoked[i] : i \in DOMAIN run.invoked}

\* C1: execute() never throws: whatever the input, the flags, the model calls, the
\* search and the writer do, a call that has ended has returned, and what it returned
\* is null or the consolidated report stored in the results.
C1_ExecuteNeverThrows ==
    /\ run.result.kind \in {"none", "returned"}
    /\ run.pc = "done" =>
          /\ run.result.kind = "returned"
          /\ \/ run.result.value = Null
             \/ /\ run.result.value = orch.results.consolidatedReport
                /\ Has(run.result.value, "report_markdown")

\* C1 witness: an exception reached the catch block of execute() (no input object),
\* and the call returned null.
C1_Witness ==
    /\ run.pc = "done"
    /\ run.result.error = "TypeError"
    /\ run.result.kind = "returned"
    /\ run.result.value = Null

\* C2: a phase whose model calls all failed (primary and fallback exhausted) does not
\* stop the run: the agent returns an artifact instead of rejecting, every later
\* phase that is enabled and the consolidation are invoked, and execute() returns a
\* report, not null.
C2_PhaseFailureDoesNotStopTheRun ==
    /\ (agent.pc = "returned" /\ agent.exception = "model_call") => agent.result.ok
    /\ (run.pc = "done" /\ run.failed # {}) =>
          /\ run.result.value # Null
          /\ 5 \in invokedSteps
          /\ \A k \in run.failed : \A n \in (k + 1)..4 :
                isSubFeatureEnabled(featureOf(n)) => n \in invokedSteps

\* C2 witness: the model calls of phase 1 failed, phases 2, 3 and 4 and the
\* consolidation ran after it, and a report was returned.
C2_Witness ==
    /\ run.pc = "done"
    /\ 1 \in run.failed
    /\ run.invoked = <<1, 2, 3, 4, 5>>
    /\ run.result.value # Null
    /\ Has(run.result.value, "phase_outputs")
    /\ run.result.value.phase_outputs.phase1.extraction_status = "failed"

\* C3: the steps run in the order 1, 2, 3, 4, consolidation: while the agent of step n
\* runs, every earlier step has finished (it ran or was skipped), the artifact of
\* every earlier step that ran is stored, and the agent was given exactly the stored
\* artifacts; no agent runs outside its step.
C3_PhasesRunInOrderOnStoredArtifacts ==
    /\ \A i, j \in DOMAIN run.invoked : i < j => run.invoked[i] < run.invoked[j]
    /\ agent.pc # "idle" => run.pc = "agent"
    /\ run.pc = "agent" =>
          /\ agent.step = run.step
          /\ run.invoked[Len(run.invoked)] = run.step
          /\ \A k \in 1..(run.step - 1) :
                /\ k \in invokedSteps \cup run.skipped
                /\ k \in invokedSteps => orch.results[resultKey(k)] # Null
                /\ k \in run.skipped => orch.results[resultKey(k)] = Null
          /\ \A k \in run.step..5 : orch.results[resultKey(k)] = Null
          /\ agent.args = argsFor(run.step, run.input, orch.results)

\* C3 witness: the agent of phase 3 runs on the stored artifacts of phases 1 and 2.
C3_Witness ==
    /\ run.pc = "agent"
    /\ agent.step = 3
    /\ agent.pc = "awaiting"
    /\ orch.results.phase1 # Null
    /\ orch.results.phase2 # Null
    /\ agent.args.businessIdentity = orch.results.phase1
    /\ agent.args.externalPresence = orch.results.phase2

\* C13: when the master flag is disabled or the API key is missing, execute()
\* returns null before any phase starts: no agent is invoked, no model request is
\* made, and the execution id, the checkpoint and the results are as the constructor
\* left them; a run in which a phase has started passed both checks.
C13_PreconditionFailureIsANoOp ==
    /\ (run.pc = "done" /\ ~(isEnabled /\ orch.openRouterApiKey # "<null>")) =>
          /\ run.result = returned(Null)
          /\ run.invoked = <<>>
          /\ run.skipped = {}
          /\ orch = Orchestrator(orch.openRouterApiKey)
          /\ agent = IdleAgent
          /\ call = IdleCall
          /\ log = <<>>
          /\ usageStats = 0
    /\ (run.invoked # <<>> \/ run.skipped # {} \/ agent.pc # "idle" \/ call.pc # "idle") =>
          /\ isEnabled
          /\ orch.openRouterApiKey # "<null>"

\* C13 witness: execute() was called with a site to analyse on an orchestrator
\* without API key, the entity being enabled, and returned null.
C13_Witness ==
    /\ run.pc = "done"
    /\ isEnabled
    /\ orch.openRouterApiKey = "<null>"
    /\ run.input # Null
    /\ run.result = returned(Null)
    /\ orch.executionId = "<null>"

\* C16: when the step of phase k is over, whether the phase completed or was
\* skipped, the checkpoint names phase k: while the run is between step k and step
\* k + 1 (pacing after k, or about to decide step k + 1) checkpoint.phase is phase k,
\* and after the consolidation it is "consolidation".
C16_CheckpointOverwrittenAfterEveryStep ==
    /\ run.pc = "pacing" =>
          /\ orch.checkpoint # Null
          /\ orch.checkpoint.phase = checkpointName(run.step)
    /\ (run.pc = "step" /\ run.step > 1) =>
          /\ orch.checkpoint # Null
          /\ orch.checkpoint.phase = checkpointName(run.step - 1)
    /\ run.pc = "writing" =>
          /\ orch.checkpoint # Null
          /\ orch.checkpoint.phase = checkpointName(5)

\* a step of the run is possible: execute() is at the decision of a step, or awaits
\* an agent that returned or that awaits a model call which is under way or settled,
\* or awaits a timer or the writer
notBlocked ==
    \/ run.pc = "step" /\ run.step \in 1..5
    \/ run.pc = "agent" /\ agent.pc = "returned"
    \/ run.pc = "agent" /\ agent.pc = "awaiting"
          /\ call.pc \in {"request", "delay", "returned", "rejected"}
    \/ run.pc \in {"pacing", "writing"}

activePhases == {k \in invokedSteps : run.pc = "agent" /\ k >= run.step} \cup
                (IF agent.pc # "idle" THEN {agent.step} ELSE {})

\* the model requests sent and not yet answered, failed or aborted
outstandingRequests ==
    IF call.pc = "request" THEN {<<call.phase, call.model, call.attempt>>} ELSE {}

\* C17: at every point of a run at most one phase is active and at most one model
\* request is outstanding: a model call is running only inside the agent of the
\* current step, which execute() is awaiting; between two steps, while pacing, while
\* writing and after the run no agent and no model call is running.
C17_OnePhaseOneRequestAtATime ==
    /\ Cardinality(activePhases) <= 1
    /\ Cardinality(outstandingRequests) <= 1
    /\ call.pc \in {"request", "delay"} =>
          /\ agent.pc = "awaiting"
          /\ call.phase = phaseOf(agent.step)
    /\ agent.pc # "idle" =>
          /\ run.pc = "agent"
          /\ agent.step = run.step
          /\ run.invoked[Len(run.invoked)] = run.step
    /\ run.pc # "agent" =>
          /\ agent.pc = "idle"
          /\ call.pc = "idle"
          /\ activePhases = {}

\* C17 witness: phase 3 is the one active phase, after phases 1 and 2 returned, and
\* its request to the fallback model is the one outstanding request.
C17_Witness ==
    /\ run.pc = "agent"
    /\ run.step = 3
    /\ activePhases = {3}
    /\ call.pc = "request"
    /\ call.stage = "fallback"
    /\ outstandingRequests = {<<"phase3_marketing_conversion", call.model, 1>>}
    /\ orch.results.phase1 # Null
    /\ orch.results.phase2 # Null

(***************************************************************************)
(* Properties of a reused orchestrator under flag changes (SpecReuse).     *)
(***************************************************************************)
\* whether the master switch is on under the flags and the environment of d
masterOnAt(d) == IF d.env # Undefined THEN d.env \in {"true", "1"} ELSE d.flags.ENABLED

\* whether the phase of step k is enabled under the flags and the environment of d
phaseEnabledAt(d, k) ==
    /\ masterOnAt(d)
    /\ flagKey(featureOf(k)) \in DOMAIN d.flags
    /\ d.flags[flagKey(featureOf(k))]

\* the flags and the environment as they are now
current == [flags |-> FEATURE_FLAG, env |-> env]

\* the run passed the entry checks of execute() and _initialize()
passedEntry ==
    \/ run.pc \in {"step", "agent", "pacing", "writing"}
    \/ run.pc = "done" /\ (run.invoked # <<>> \/ run.skipped # {})

\* no phase flag has changed since the entry of the run
phaseFlagsAsAtEntry ==
    \A k \in DOMAIN FEATURE_FLAG \ {"ENABLED"} : FEATURE_FLAG[k] = run.entry.flags[k]

C20_RunStateBelongsToOneCall ==
    (run.call > 1 /\ passedEntry) =>
        /\ run.invoked = <<>> => orch.checkpoint = Null
        /\ \A k \in run.skipped : orch.results[resultKey(k)] = Null
        /\ run.pc = "step" => \A k \in run.step..5 : orch.results[resultKey(k)] = Null
        /\ run.pc = "done" =>
              /\ \A k \in run.skipped : resultKey(k) \notin run.outputs
              /\ Has(run.result.value, "phase_outputs") =>
                    \A k \in run.skipped \cap (1..4) :
                       ~Has(run.result.value.phase_outputs, resultKey(k))
                       \/ run.result.value.phase_outputs[resultKey(k)] = Null

(***************************************************************************)
(* Properties of the agents and of the consolidator (SpecAgent).           *)
(***************************************************************************)
\* the weighted mean of the confidences of the phases whose artifact is present
\* (0 when none is)
meanOfPresent(phases) ==
    LET present == {i \in 1..4 : phases[i] # Null}
        pick(i, x) == IF i \in present THEN x ELSE Zero
    IN  IF present = {} THEN Zero
        ELSE RDiv(RSum([i \in 1..4 |-> pick(i, RMul(phases[i].overall_confidence, weights[i]))]),
                  RSum([i \in 1..4 |-> pick(i, weights[i])]))

\* C4: the overall_confidence of a report built from the phase artifacts is
\* sum(confidence_i * weight_i) / sum(weight_i) over exactly the phases whose artifact
\* is present.
C4_OverallConfidenceIsMeanOfPresentPhases ==
    (/\ agent.pc = "returned"
     /\ agent.step = 5
     /\ agent.mode = "consolidate"
     /\ agent.exception = "none")
    => agent.result.v.overall_confidence = meanOfPresent(agent.args.phases)

\* the keys every artifact of a phase has to carry
RequiredKeys(step) ==
    {"extracted_at", "overall_confidence"} \cup
    CASE step = 1 -> {"business_identity", "primary_offerings", "proof_assets",
                      "offer_structure"}
      [] step = 2 -> {"business", "profiles", "profiles_discovered"}
      [] step = 3 -> {"marketing", "landing_pages", "engagement_paths", "sales_process",
                      "product_journey"}
      [] step = 4 -> {"competitors"}

\* C9: every call of a phase agent returns (it does not reject) an artifact that has
\* every required key of its phase, whatever the model calls did.
C9_AgentsReturnCompleteArtifacts ==
    (agent.pc = "returned" /\ agent.step \in 1..4) =>
        /\ agent.result.ok
        /\ RequiredKeys(agent.step) \subseteq DOMAIN agent.result.v

\* C10: when an exception occurred inside a phase agent after mode selection (the
\* model calls failed, or validation threw), the artifact it returns carries
\* extraction_status "failed".
C10_ExceptionYieldsFailedArtifact ==
    (agent.pc = "returned" /\ agent.step \in 1..4 /\ agent.exception # "none") =>
        /\ agent.result.ok
        /\ Has(agent.result.v, "extraction_status")
        /\ agent.result.v.extraction_status = "failed"

\* C11: consolidate() never throws: every call returns a report, and when the
\* synthesis model call was rejected (the one failure inside its try block) the report
\* it returns has status "failed", carries the message of that error and repeats it
\* in report_markdown.
C11_ConsolidateNeverThrows ==
    /\ [](agent.pc = "returned" /\ agent.step = 5 => agent.result.ok)
    /\ [][(agent.pc = "awaiting" /\ agent.step = 5 /\ call.pc = "rejected"
            /\ agent'.pc = "returned")
           => /\ agent'.result.ok
              /\ agent'.result.v.status = "failed"
              /\ agent'.result.v.error = outcome
              /\ agent'.result.v.report_markdown.content.form = "error notice"
              /\ agent'.result.v.report_markdown.content.error = outcome]_vars

\* C11 witness: both models of the consolidation failed and consolidate() returned
\* the error report with the "All models failed" message in its markdown.
C11_Witness ==
    /\ agent.pc = "returned"
    /\ agent.step = 5
    /\ agent.exception = "model_call"
    /\ agent.result.ok
    /\ agent.result.v.status = "failed"
    /\ agent.result.v.report_markdown.content.error.name = "all_models_failed"
    /\ "report_consolidation" \in agent.result.v.report_markdown.content.error.words

\* the keys every report has to carry, and those of its data_quality
ReportKeys ==
    {"report_id", "generated_at", "report_markdown", "summary", "overall_confidence",
     "phase_confidences", "data_quality", "phase_outputs"}

DataQualityKeys == {"phases_completed", "phases_missing", "low_confidence_areas"}

\* C12: every report consolidate() returns, on the normal path, on the
\* feature-disabled path and on the failure path, has report_id, generated_at,
\* report_markdown, summary, overall_confidence, phase_confidences, data_quality with
\* phases_completed, phases_missing and low_confidence_areas, and phase_outputs.
C12_ReportsAreComplete ==
    (agent.pc = "returned" /\ agent.step = 5) =>
        /\ agent.result.ok
        /\ ReportKeys \subseteq DOMAIN agent.result.v
        /\ DataQualityKeys \subseteq DOMAIN agent.result.v.data_quality

\* the empty artifact (no data, overall_confidence 0) of each phase
emptyArtifact(i) ==
    CASE i = 1 -> getEmptyProfile(TargetUrl)
      [] i = 2 -> getEmptyAnalysis2(rawIdentity(TargetUrl))
      [] i = 3 -> getEmptyAnalysis3(TargetUrl)
      [] i = 4 -> getEmptyAnalysis4(Null)

\* C18: a report built by consolidate() has the same overall_confidence, the same
\* phases_completed and phases_missing and the same low_confidence_areas as the report
\* of the same call with any one empty artifact (overall_confidence 0) replaced by
\* null.
C18_EmptyArtifactTreatedAsAbsent ==
    (/\ agent.pc = "returned"
     /\ agent.step = 5
     /\ agent.mode = "consolidate"
     /\ agent.exception = "none")
    => \A i \in 1..4 :
          agent.args.phases[i] = emptyArtifact(i) =>
             LET absent == [agent.args.phases EXCEPT ![i] = Null]
                 quality == agent.result.v.data_quality
             IN  /\ agent.result.v.overall_confidence = calculateOverallConfidence(absent)
                 /\ quality.phases_completed = namesWhere(absent, TRUE)
                 /\ quality.phases_missing = namesWhere(absent, FALSE)
                 /\ quality.low_confidence_areas = identifyLowConfidenceAreas(absent)

\* a number in [0, 1]
inUnit(q) == q.n >= 0 /\ q.n <= q.d

\* the confidence of an object, and of every element of an array, is in [0, 1]
confidenceInUnit(o) == Has(o, "confidence") => inUnit(o.confidence)

confidencesInUnit(o, k) ==
    Has(o, k) => \A i \in DOMAIN o[k] : confidenceInUnit(o[k][i])

\* every confidence value of an artifact of a phase, or of a report, is in [0, 1]
artifactConfidencesInUnit(step, a) ==
    /\ Has(a, "overall_confidence")
    /\ inUnit(a.overall_confidence)
    /\ CASE step = 1 ->
              /\ \A k \in {"name", "location", "category"} :
                    HasPath(a, <<"business_identity", k>>) =>
                        confidenceInUnit(a.business_identity[k])
              /\ confidencesInUnit(a, "primary_offerings")
              /\ confidencesInUnit(a, "proof_assets")
         [] step = 2 ->
              /\ Has(a, "profiles") =>
                    /\ confidencesInUnit(a.profiles, "social")
                    /\ confidencesInUnit(a.profiles, "b2b_listings")
                    /\ confidenceInUnit(ValOr(a.profiles, "google_business_profile", Null))
              /\ confidencesInUnit(a, "sentiment_themes")
              /\ confidencesInUnit(a, "evidence")
              /\ \A k \in {"owner_response_behavior", "owner_response_analysis"} :
                    Has(a, k) => confidenceInUnit(a[k])
         [] step = 3 ->
              /\ Has(a, "marketing") => confidencesInUnit(a.marketing, "channels")
              /\ confidencesInUnit(a, "engagement_paths")
         [] step = 4 -> TRUE
         [] step = 5 ->
              Has(a, "phase_confidences") =>
                 \A k \in DOMAIN a.phase_confidences \ {"isEmptyObject"} :
                    inUnit(a.phase_confidences[k])

\* what an agent or the consolidator returned has all its confidences in [0, 1]
returnedConfidencesInUnit ==
    (agent.pc = "returned" /\ agent.result.ok) =>
        artifactConfidencesInUnit(agent.step, agent.result.v)

\* an agent returned an artifact without a model answer to build it from: it made
\* no model call, or an exception took it to a catch block
returnedWithoutAnswer ==
    /\ agent.pc = "returned"
    /\ agent.step \in 1..4
    /\ agent.result.ok
    /\ (agent.mode \in {"disabled", "none"} \/ agent.exception # "none")

\* the consolidator returned a report over no phase artifact at all
reportOverNothing ==
    /\ agent.pc = "returned"
    /\ agent.step = 5
    /\ agent.result.ok
    /\ \A i \in 1..4 : agent.args.phases[i] = Null

\* an agent resumes with a model answer that has no content at all, and returns
ReturnsOnEmptyAnswer ==
    /\ agent.pc = "awaiting"
    /\ agent.step \in 1..4
    /\ call.pc = "returned"
    /\ outcome.raw.form = "empty"
    /\ agent'.pc = "returned"

\* C19: every confidence value of every artifact an agent returns and of every
\* report the consolidator returns is a number in [0, 1]; and overall_confidence is 0
\* where there was no signal to build the artifact from: the artifact an agent
\* returns without a model call, the one it returns after an exception, the one it
\* returns when the model answered with no content at all, and the report over no
\* phase artifact.
C19_ConfidenceBounds ==
    /\ []returnedConfidencesInUnit
    /\ []((returnedWithoutAnswer \/ reportOverNothing)
            => agent.result.v.overall_confidence = Zero)
    /\ [][ReturnsOnEmptyAnswer => agent'.result.v.overall_confidence = Zero]_vars

\* every phase input of the consolidator is absent (null) or the empty artifact of
\* its phase
allInputsEmptyOrAbsent ==
    \A i \in 1..4 : agent.args.phases[i] \in {Null, emptyArtifact(i)}

\* C21: when all four phase inputs are empty or absent, consolidate() returns a
\* report with overall_confidence 0, data_quality.phases_missing equal to
\* [phase1, phase2, phase3, phase4] and a non-empty report_markdown, whatever the
\* synthesis model call does.
C21_ReportOverNothing ==
    (agent.pc = "returned" /\ agent.step = 5 /\ allInputsEmptyOrAbsent) =>
        /\ agent.result.ok
        /\ agent.result.v.overall_confidence = Zero
        /\ HasPath(agent.result.v, <<"data_quality", "phases_missing">>)
        /\ agent.result.v.data_quality.phases_missing = PhaseNames
        /\ Truthy(agent.result.v.report_markdown)

\* the competitors of artifact a are ranked 1..Len in list order
rankedInOrder(a) ==
    \A i \in DOMAIN a.competitors :
        Has(a.competitors[i], "rank") /\ a.competitors[i].rank = i

\* the agent of phase 4 resumes with a model answer that lists competitors, and
\* returns
ReturnsOnCompetitors ==
    /\ agent.pc = "awaiting"
    /\ agent.step = 4
    /\ call.pc = "returned"
    /\ outcome.raw.form \in {"json", "wrapped"}
    /\ Has(outcome.raw.obj, "competitors")
    /\ agent'.pc = "returned"

\* C22: the Phase 4 artifact always holds at most 3 competitors, ranked 1..k in list
\* order, where k is the smaller of 3 and the number of competitors the model
\* returned, whatever ranks and however many competitors the model returned.
C22_CompetitorCap ==
    /\ []((agent.pc = "returned" /\ agent.step = 4 /\ agent.result.ok
           /\ Has(agent.result.v, "competitors")) =>
             /\ Len(agent.result.v.competitors) <= 3
             /\ rankedInOrder(agent.result.v))
    /\ [][ReturnsOnCompetitors =>
             LET returnedByModel == Len(outcome.raw.obj.competitors)
                 k == IF returnedByModel < 3 THEN returnedByModel ELSE 3
             IN  /\ agent'.result.ok
                 /\ Has(agent'.result.v, "competitors")
                 /\ Len(agent'.result.v.competitors) = k
                 /\ rankedInOrder(agent'.result.v)]_vars

\* website data with neither HTML nor any text
noContent(websiteData) == ~websiteData.html.present /\ websiteData.textContent.len = 0

\* the input of the agent of a step holds neither rich content nor a description or
\* query: no HTML and no text for phases 1 and 3 (and no identity to describe for
\* phase 3), no name, offering, url or text for phase 2, no identity and no seed
\* keyword for phase 4
noInput(step, args) ==
    CASE step = 1 -> noContent(args.websiteData)
      [] step = 2 -> /\ nameValue(args.businessIdentity) = ""
                     /\ ~NonEmptyArray(args.businessIdentity, "primary_offerings")
                     /\ StrOr(args.businessIdentity, "url", "") = ""
                     /\ StrOr(args.businessIdentity, "textContent", "") = ""
      [] step = 3 -> noContent(args.websiteData) /\ args.businessIdentity = Null
      [] step = 4 -> args.businessIdentity = Null /\ args.seedKeywords = {}

\* C23: a phase agent called on an input with neither rich content nor a description
\* or query returns the empty artifact at once: it makes no model call.
C23_NoInputNoModelCall ==
    (agent.pc # "idle" /\ agent.step \in 1..4 /\ noInput(agent.step, agent.args)) =>
        /\ agent.pc = "returned"
        /\ call.pc = "idle"
        /\ log = <<>>
        /\ agent.result.ok
        /\ agent.result.v = immediateOf(agent.step, agent.mode, agent.args)

\* a request of a phase that requires JSON comes back with content that does not
\* parse, and the call settles
UnparseableAnswer ==
    /\ call.pc = "request"
    /\ phaseConfig(call.phase).requiresJson
    /\ outcome'.kind = "result"
    /\ outcome'.raw.form \notin {"json", "wrapped"}

\* C24: a JSON-required model response that cannot be parsed does not make
\* complete() throw: the call returns a result with parsed null and the failure
\* recorded in parseError, and the response is not a failed attempt: no delay, no
\* further request and no fallback follow it.  parseError is recorded for nothing
\* else.
C24_ParseFailureIsAField ==
    /\ [][UnparseableAnswer =>
             /\ call'.pc = "returned"
             /\ outcome'.parsed = JNull
             /\ outcome'.parseError
             /\ log' = log]_vars
    /\ []((call.pc = "returned" /\ outcome.kind = "result") =>
             (outcome.parseError <=>
                 /\ phaseConfig(call.phase).requiresJson
                 /\ outcome.raw.form \notin {"json", "wrapped"}))
    /\ [](call.pc = "rejected" => outcome.kind # "result")

\* C24 witness: the first request of a JSON-required phase came back with broken
\* JSON and the call returned the result, parse failure recorded, after that single
\* request.
C24_Witness ==
    /\ call.pc = "returned"
    /\ outcome.kind = "result"
    /\ outcome.raw.form = "broken"
    /\ outcome.parsed = JNull
    /\ outcome.parseError
    /\ log = <<Request(phaseConfig(call.phase).primaryModel, 1)>>

(***************************************************************************)
(* Properties of pacing and of absent flags (SpecPacing).                  *)
(***************************************************************************)
\* humanPacing is switched on and configures a window 0 <= minDelayMs <= maxDelayMs
windowConfigured(pacing) ==
    /\ pacingEnabled(pacing)
    /\ Has(pacing, "minDelayMs")
    /\ Has(pacing, "maxDelayMs")
    /\ 0 <= pacing.minDelayMs
    /\ pacing.minDelayMs <= pacing.maxDelayMs

flagAbsent(k) == flagKey(featureOf(k)) \notin DOMAIN FEATURE_FLAG

\* C26: a flag that is absent from the configuration counts as enabled: a phase whose
\* flag is absent is executed, not skipped, and pacing whose enabled flag is absent
\* is applied after every executed phase.
C26_AbsentFlagMeansEnabled ==
    /\ [](\A k \in 1..4 : (flagAbsent(k) /\ isEnabled) => k \notin run.skipped)
    /\ [][(/\ run.pc = "agent"
           /\ run.step \in 1..4
           /\ run'.pc \notin {"agent", "done"}
           /\ ~Has(orch.config.humanPacing, "enabled")) => run'.pc = "pacing"]_vars

(***************************************************************************)
(* Further properties of the agents (SpecAgent).                           *)
(***************************************************************************)
\* the agent of phase 2 returned after a search that was unavailable or found
\* nothing: it went on to the model, with or without a Phase 1 identity
returnedWithoutSearchResults ==
    /\ agent.pc = "returned"
    /\ agent.step = 2
    /\ agent.mode \in {"identity", "estimation"}

\* C27: when the search returns no result or is unavailable, the Phase 2 artifact is
\* an estimate and says so: it carries a data_source marker that differs from the
\* marker of search-backed artifacts, whether or not a Phase 1 identity was supplied.
C27_EstimateIsMarked ==
    returnedWithoutSearchResults =>
        /\ agent.result.ok
        /\ Has(agent.result.v, "data_source")
        /\ agent.result.v.data_source = "llm_estimation"
        /\ agent.result.v.data_source # buildAnalysisFromSearchResults(SearchResults, "").data_source

\* the model answered with nothing to extract: no content at all, or a JSON object
\* with none of the keys of the schema
zeroFacts(llmResult) ==
    \/ llmResult.raw.form = "empty"
    \/ llmResult.raw.form \in {"json", "wrapped"} /\ llmResult.raw.obj = Sparse

\* an agent resumes with a model answer that yields no fact, and returns
ReturnsOnZeroFacts ==
    /\ agent.pc = "awaiting"
    /\ agent.step \in 1..4
    /\ call.pc = "returned"
    /\ zeroFacts(outcome)
    /\ agent'.pc = "returned"

\* the artifact the agent of a step returns on an input with no content and no
\* description
emptyInputArtifact(step, args) == immediateOf(step, "none", args)

\* artifacts a and b have the same keys, and so have their values under the keys in
\* nested, which are objects in both
sameShape(a, b, nested) ==
    /\ DOMAIN a = DOMAIN b
    /\ \A k \in nested \cap DOMAIN a \cap DOMAIN b : DOMAIN a[k] = DOMAIN b[k]

\* the keys of the empty artifact of a step whose values are objects
objectKeys(step) ==
    CASE step = 1 -> {"business_identity", "offer_structure", "evidence"}
      [] step = 2 -> {"business", "profiles", "social_perception", "owner_response_behavior"}
      [] step = 3 -> {"marketing", "sales_process", "product_journey"}
      [] step = 4 -> {}

\* C28: for each phase agent, the artifact returned for content that yields no fact
\* has the same shape, the same keys at every level, as the artifact it returns for
\* an input with no content and no description.
C28_EmptyShapeIsTheSame ==
    [][ReturnsOnZeroFacts =>
          /\ agent'.result.ok
          /\ sameShape(agent'.result.v, emptyInputArtifact(agent.step, agent.args),
                       objectKeys(agent.step))]_vars

\* a phase agent resumes with the answer of the model, its validation step runs to
\* its end, and the agent returns
ReturnsAfterValidation ==
    /\ agent.pc = "awaiting"
    /\ agent.step \in 1..4
    /\ call.pc = "returned"
    /\ agent'.pc = "returned"
    /\ agent'.exception = "none"

\* C29: after the validation step of a phase agent no field of the returned artifact
\* is undefined: every substructure the parsed answer of the model lacks (or every
\* one, when the parsed answer is null) is there with its empty default, in the
\* website path and in the description path.
C29_ValidationFillsDefaults ==
    [][ReturnsAfterValidation =>
        /\ agent'.result.ok
        /\ \A k \in RequiredKeys(agent.step) : Has(agent'.result.v, k)]_vars

\* C30: in every artifact of phase 3 the total number of CTAs is derived from the
\* final structure of the artifact and not taken from the model: it equals the number
\* of CTA records, primary and supporting, over all landing pages of the returned
\* artifact, in the website path and in the description path.
C30_TotalCtasCountsTheRecords ==
    (agent.pc = "returned" /\ agent.step = 3) =>
        /\ agent.result.ok
        /\ Has(agent.result.v, "total_ctas")
        /\ agent.result.v.total_ctas =
              countCtas(ValOr(agent.result.v, "landing_pages", <<>>))

====
